---- MODULE Spec2Model ----
(***************************************************************************)
(* Model of the oiduna loop engine: LoopEngine (command handlers, step     *)
(* loop), RuntimeState (position, playback state, session layers, pending  *)
(* apply), NoteScheduler and the ClockGenerator fields the engine touches. *)
(*                                                                         *)
(* Abstractions:                                                           *)
(*  - wall-clock values (Position.timestamp, PendingApply.received_at)     *)
(*    are never read by the engine and are left out;                       *)
(*  - an anchor time is either None or "set": the drift that the code      *)
(*    computes from anchor, counter and time.perf_counter() is an input    *)
(*    of the step-loop iteration (milliseconds);                           *)
(*  - step_duration is kept in microseconds (integer division);            *)
(*  - what an action sends on the MidiOutput protocol, publishes to the    *)
(*    StateSink, or returns, is recorded in midi_sent / events / result,   *)
(*    which hold the outputs of the last action only; call holds the       *)
(*    handler it called and dispatched the step and session it processed;  *)
(*  - queued is a history variable: the compile queued last, whether an    *)
(*    advance to a step > 0 followed it, and whether it replaced another;  *)
(*  - a compile payload carries, per track, the sound name s and the set   *)
(*    of steps of its sequence; the other IR fields take no part in the    *)
(*    merge rules modelled here;                                           *)
(*  - step_clock refines the drift input: it holds the perf_counter        *)
(*    readings of the step loop in microseconds (the last reading, the     *)
(*    anchor, the time the sleep ends), and StepLoopAt computes the drift  *)
(*    from them as the code does; a sleep may end late;                    *)
(*  - tempo_changed is a history variable: the BPM changed during          *)
(*    playback since the last drift reset;                                 *)
(*  - tasks holds the loops of run() that are still alive and how run()    *)
(*    ended (asyncio.gather raises the first exception of a loop and       *)
(*    leaves the others running); an exception inside a loop iteration is  *)
(*    a boolean input of the iteration;                                    *)
(*  - connections counts the connect/register/load calls start() made on   *)
(*    each of its collaborators;                                           *)
(*  - message_scheduler is the index of the MessageScheduler (step to     *)
(*    list of messages) with its bpm and pattern length;                   *)
(*    destination_router is the set of registered destination ids, and     *)
(*    delivered the params the last send_messages handed to each sender;   *)
(*    the before-send hooks of extensions, the OSC output and the drift    *)
(*    statistics of the ClockGenerator are not modelled;                   *)
(*  - state_sink is the InProcessStateSink: the maxsize and contents of    *)
(*    its asyncio.Queue. The engine specifications record what an action   *)
(*    publishes in events; the sink has its own actions;                   *)
(*  - a handler that raises instead of returning leaves Raised(exception)  *)
(*    in result;                                                           *)
(*  - step_suspended is the await at which an iteration of the step loop   *)
(*    has handed control to the event loop (None between iterations);      *)
(*  - active_notes is MidiSender._active_notes, the notes whose note-on    *)
(*    went out on the open port and whose note-off has not; a message      *)
(*    sent on an open port is taken to reach it;                           *)
(*  - in the specifications that call a component directly, queued counts  *)
(*    the step advances since the pending change was set.                  *)
(***************************************************************************)
EXTENDS Integers, Sequences, FiniteSets, TLC

\* ---------------------------------------------------------------------
\* Program constants
\* ---------------------------------------------------------------------
LOOP_STEPS == 256
STEPS_PER_BEAT == 4
STEPS_PER_BAR == 16
DEFAULT_BPM == 120
DRIFT_RESET_THRESHOLD_MS == 50
DRIFT_WARNING_THRESHOLD_MS == 20
DEFAULT_QUEUE_SIZE == 64
CLOCK_DRIFT_RESET_THRESHOLD_MS == 30
PULSES_PER_STEP == 6

\* ---------------------------------------------------------------------
\* Bounds of the model
\* ---------------------------------------------------------------------
MaxStepCount == 2       \* iterations counted since the anchor was set
MaxPendingNotes == 1    \* length of the note-off queue
MaxInbox == 2           \* commands waiting in the command source
MaxHandled == 3         \* commands received by the command source in a run
MaxResets == 1          \* drift resets counted in the drift statistics
MaxPulses == 2          \* pulses counted since the clock anchor was set
MaxMessages == 3      \* messages in one batch handed to the scheduler or the router
MaxQueueSize == 3     \* largest maxsize of a state sink built with a limit
MaxStarts == 2          \* calls of start()
MaxClock == 500000      \* last clock reading of the step loop, microseconds

\* ---------------------------------------------------------------------
\* Optional values: None, or a set holding the one value
\* ---------------------------------------------------------------------
None == {}
Some(x) == {x}
The(o) == CHOOSE x \in o : TRUE

EmptyDict == [k \in {} |-> 0]

\* ---------------------------------------------------------------------
\* Session IR
\* ---------------------------------------------------------------------

\* Environment(): the schema defaults
DefaultEnvironment == [bpm |-> DEFAULT_BPM]

\* CompiledSession(): every field at its default
DefaultSession ==
    [environment |-> DefaultEnvironment,
     tracks |-> EmptyDict,
     sequences |-> EmptyDict,
     scenes |-> EmptyDict,
     apply |-> None]

\* Track.from_dict for the fields the engine merges: meta.mute, meta.solo
\* default to False, params.s is required
TrackFromDict(d) ==
    [s |-> d.s,
     mute |-> IF "mute" \in DOMAIN d THEN d.mute ELSE FALSE,
     solo |-> IF "solo" \in DOMAIN d THEN d.solo ELSE FALSE]

\* Environment.from_dict: bpm defaults to 120 when the key is missing
EnvironmentFromDict(d) ==
    [bpm |-> IF "bpm" \in DOMAIN d THEN d.bpm ELSE DEFAULT_BPM]

\* ApplyCommand.from_dict: track_ids defaults to [], scene_name to None
ApplyFromDict(d) ==
    [timing |-> d.timing,
     track_ids |-> IF "track_ids" \in DOMAIN d THEN d.track_ids ELSE {},
     scene_name |-> None]

\* Scene.from_dict: the environment is None when missing or empty
SceneFromDict(d) ==
    [environment |->
        IF "environment" \in DOMAIN d /\ d.environment # EmptyDict
        THEN Some(EnvironmentFromDict(d.environment)) ELSE None,
     tracks |->
        IF "tracks" \in DOMAIN d
        THEN [t \in DOMAIN d.tracks |-> TrackFromDict(d.tracks[t])]
        ELSE EmptyDict,
     sequences |->
        IF "sequences" \in DOMAIN d THEN d.sequences ELSE EmptyDict]

\* CompiledSession.from_dict: missing keys take the defaults; a missing or
\* empty apply gives None
SessionFromDict(data) ==
    [environment |->
        EnvironmentFromDict(IF "environment" \in DOMAIN data
                            THEN data.environment ELSE EmptyDict),
     tracks |->
        IF "tracks" \in DOMAIN data
        THEN [t \in DOMAIN data.tracks |-> TrackFromDict(data.tracks[t])]
        ELSE EmptyDict,
     sequences |->
        IF "sequences" \in DOMAIN data THEN data.sequences ELSE EmptyDict,
     scenes |->
        IF "scenes" \in DOMAIN data
        THEN [n \in DOMAIN data.scenes |-> SceneFromDict(data.scenes[n])]
        ELSE EmptyDict,
     apply |->
        IF "apply" \in DOMAIN data /\ data.apply # EmptyDict
        THEN Some(ApplyFromDict(data.apply))
        ELSE None]

\* RuntimeState._merge_environment: override wins unless it is the default
MergeEnvironment(base, override) ==
    [bpm |-> IF override.bpm # DEFAULT_BPM THEN override.bpm ELSE base.bpm]

\* RuntimeState._merge_track: meta of the override, s of the override or base
MergeTrack(base, override) ==
    [s |-> IF override.s # "" THEN override.s ELSE base.s,
     mute |-> override.mute,
     solo |-> override.solo]

\* dict(base); d.update(overrides)
DictUpdate(base, overrides) == overrides @@ base

\* RuntimeState._deep_merge
DeepMerge(base, overrides) ==
    [environment |-> MergeEnvironment(base.environment, overrides.environment),
     tracks |->
        [t \in DOMAIN base.tracks \cup DOMAIN overrides.tracks |->
            IF t \in DOMAIN overrides.tracks
            THEN IF t \in DOMAIN base.tracks
                 THEN MergeTrack(base.tracks[t], overrides.tracks[t])
                 ELSE overrides.tracks[t]
            ELSE base.tracks[t]],
     sequences |-> DictUpdate(base.sequences, overrides.sequences),
     scenes |-> DictUpdate(base.scenes, overrides.scenes),
     apply |-> IF overrides.apply # None THEN overrides.apply ELSE base.apply]

\* ---------------------------------------------------------------------
\* RuntimeState
\* ---------------------------------------------------------------------
STOPPED == "stopped"
PLAYING == "playing"
PAUSED == "paused"

\* Position(): step 0, bar 0, beat 0
InitialPosition == [step |-> 0, beat |-> 0, bar |-> 0]

\* Position.advance that does not wrap at the end of the loop
PositionAdvanceNoWrap(p) ==
    LET s == p.step + 1
    IN [step |-> s,
        beat |-> (s \div STEPS_PER_BEAT) % STEPS_PER_BEAT,
        bar |-> s \div STEPS_PER_BAR]

\* Position.advance
PositionAdvance(p) ==
    LET s == (p.step + 1) % LOOP_STEPS
    IN [step |-> s,
        beat |-> (s \div STEPS_PER_BEAT) % STEPS_PER_BEAT,
        bar |-> s \div STEPS_PER_BAR]

\* Position.reset that leaves the position where it is
PositionResetKeeps(p) == p

\* Position.reset
PositionReset(p) == [step |-> 0, beat |-> 0, bar |-> 0]

\* _update_timing with the duration of a beat instead of a 16th note
StepDurationOfBeat(bpm) == 60000000 \div bpm

\* 60.0 / bpm / 4 seconds, in microseconds
StepDurationOf(bpm) == 15000000 \div bpm

\* RuntimeState(): the dataclass defaults (_step_duration = 0.125 s)
InitialRuntimeState ==
    [active_scene_name |-> None,
     scene_state |-> None,
     live_overrides |-> None,
     effective |-> None,
     position |-> InitialPosition,
     playback_state |-> STOPPED,
     pending |-> None,
     step_duration |-> 125000]

\* RuntimeState.playing
Playing(rs) == rs.playback_state = PLAYING

\* The session get_effective() returns
Effective(rs) ==
    IF rs.effective # None THEN The(rs.effective)
    ELSE IF rs.scene_state = None /\ rs.live_overrides = None THEN DefaultSession
    ELSE IF rs.scene_state = None THEN The(rs.live_overrides)
    ELSE IF rs.live_overrides = None THEN The(rs.scene_state)
    ELSE DeepMerge(The(rs.scene_state), The(rs.live_overrides))

\* RuntimeState.get_effective: the state it leaves (cache filled, and the
\* timing updated when the cache was empty)
GetEffective(rs) ==
    IF rs.effective # None THEN rs
    ELSE [rs EXCEPT !.effective = Some(Effective(rs)),
                    !.step_duration = StepDurationOf(Effective(rs).environment.bpm)]

\* RuntimeState.bpm
Bpm(rs) == Effective(rs).environment.bpm

\* RuntimeState._update_timing: reads self.bpm (filling the cache)
UpdateTiming(rs) ==
    [GetEffective(rs) EXCEPT !.step_duration = StepDurationOf(Bpm(rs))]

Min(a, b) == IF a <= b THEN a ELSE b

\* set_bpm that leaves the cached effective session in place
SetBpmKeepsCache(rs, bpm) ==
    LET clamped == IF bpm < 1 THEN 1 ELSE Min(999, bpm)
        filled == GetEffective(rs)
        overrides ==
            IF rs.live_overrides = None
            THEN [DefaultSession EXCEPT !.environment = [bpm |-> clamped]]
            ELSE [The(rs.live_overrides) EXCEPT
                     !.environment = [bpm |-> clamped]]
    IN UpdateTiming([filled EXCEPT !.live_overrides = Some(overrides)])

\* RuntimeState.set_bpm: the BPM is clamped to 1..999 and written to the
\* environment of the live overrides
SetBpm(rs, bpm) ==
    LET clamped == IF bpm < 1 THEN 1 ELSE Min(999, bpm)
        filled == GetEffective(rs)
        overrides ==
            IF rs.live_overrides = None
            THEN [DefaultSession EXCEPT !.environment = [bpm |-> clamped]]
            ELSE [The(rs.live_overrides) EXCEPT
                     !.environment = [bpm |-> clamped]]
    IN UpdateTiming([filled EXCEPT !.live_overrides = Some(overrides),
                                   !.effective = None])

\* RuntimeState.load_session
LoadSession(rs, session) ==
    UpdateTiming([rs EXCEPT !.scene_state = Some(session),
                            !.live_overrides = None,
                            !.active_scene_name = None,
                            !.effective = None])

\* RuntimeState.apply_override
ApplyOverride(rs, override) ==
    UpdateTiming([rs EXCEPT
        !.live_overrides =
            IF rs.live_overrides = None THEN Some(override)
            ELSE Some(DeepMerge(The(rs.live_overrides), override)),
        !.effective = None])

\* RuntimeState.apply_scene
ApplyScene(rs, scene_name) ==
    LET eff == Effective(rs)
        rs1 == GetEffective(rs)
    IN IF scene_name \notin DOMAIN eff.scenes THEN rs1
       ELSE LET scene == eff.scenes[scene_name]
            IN UpdateTiming([rs1 EXCEPT
                   !.active_scene_name = Some(scene_name),
                   !.scene_state =
                       Some([environment |->
                                IF scene.environment # None
                                THEN The(scene.environment)
                                ELSE DefaultEnvironment,
                             tracks |-> scene.tracks,
                             sequences |-> scene.sequences,
                             scenes |-> eff.scenes,
                             apply |-> None]),
                   !.live_overrides = None,
                   !.effective = None])

\* RuntimeState._clear_non_specified_events
ClearNonSpecifiedEvents(rs, specified_ids) ==
    LET eff == Effective(rs)
        rs1 == GetEffective(rs)
        cleared == DOMAIN eff.sequences \ specified_ids
        empty_sequences == [t \in cleared |-> {}]
    IN IF cleared # {}
       THEN ApplyOverride(rs1, [DefaultSession EXCEPT !.sequences = empty_sequences])
       ELSE rs1

\* _apply_partial without the clearing of the tracks it does not name
ApplyPartialKeepsOthers(rs, session, track_ids) ==
    ApplyOverride(rs,
        [DefaultSession EXCEPT
            !.environment = session.environment,
            !.tracks = [t \in DOMAIN session.tracks \cap track_ids |->
                           session.tracks[t]],
            !.sequences = [t \in DOMAIN session.sequences \cap track_ids |->
                              session.sequences[t]]])

\* RuntimeState._apply_partial
ApplyPartial(rs, session, track_ids) ==
    LET partial_session ==
            [DefaultSession EXCEPT
                !.environment = session.environment,
                !.tracks = [t \in DOMAIN session.tracks \cap track_ids |->
                               session.tracks[t]],
                !.sequences = [t \in DOMAIN session.sequences \cap track_ids |->
                                  session.sequences[t]]]
    IN ClearNonSpecifiedEvents(ApplyOverride(rs, partial_session), track_ids)

\* set_pending carrying the passed_non_zero flag of the pending it replaces
SetPendingKeepsFlag(rs, session, timing, track_ids) ==
    [rs EXCEPT !.pending =
        Some([timing |-> timing,
              session |-> session,
              track_ids |-> track_ids,
              scene_name |-> None,
              passed_non_zero |->
                  rs.pending # None /\ The(rs.pending).passed_non_zero])]

\* RuntimeState.set_pending: a fresh PendingApply replaces self.pending
SetPending(rs, session, timing, track_ids) ==
    [rs EXCEPT !.pending =
        Some([timing |-> timing,
              session |-> session,
              track_ids |-> track_ids,
              scene_name |-> None,
              passed_non_zero |-> FALSE])]

\* RuntimeState.set_pending_change
SetPendingChange(rs, session_data, timing, track_ids) ==
    SetPending(rs, SessionFromDict(session_data), timing, track_ids)

\* should_apply_pending testing a bar-timed change on the beat
ShouldApplyPendingBarOnBeat(rs) ==
    IF rs.pending = None THEN FALSE
    ELSE LET step == rs.position.step
             timing == The(rs.pending).timing
         IN CASE timing = "now" -> TRUE
              [] timing = "beat" -> step % STEPS_PER_BEAT = 0
              [] timing = "bar" -> step % STEPS_PER_BEAT = 0
              [] timing = "seq" -> step = 0 /\ The(rs.pending).passed_non_zero
              [] OTHER -> FALSE

\* should_apply_pending applying a seq-timed change at any step 0
ShouldApplyPendingSeqAtZero(rs) ==
    IF rs.pending = None THEN FALSE
    ELSE LET step == rs.position.step
             timing == The(rs.pending).timing
         IN CASE timing = "now" -> TRUE
              [] timing = "beat" -> step % STEPS_PER_BEAT = 0
              [] timing = "bar" -> step % STEPS_PER_BAR = 0
              [] timing = "seq" -> step = 0
              [] OTHER -> FALSE

\* RuntimeState.should_apply_pending
ShouldApplyPending(rs) ==
    IF rs.pending = None THEN FALSE
    ELSE LET step == rs.position.step
             timing == The(rs.pending).timing
         IN CASE timing = "now" -> TRUE
              [] timing = "beat" -> step % STEPS_PER_BEAT = 0
              [] timing = "bar" -> step % STEPS_PER_BAR = 0
              [] timing = "seq" -> step = 0 /\ The(rs.pending).passed_non_zero
              [] OTHER -> FALSE

\* RuntimeState.execute_pending (apply_pending_changes)
ExecutePending(rs) ==
    IF rs.pending = None THEN rs
    ELSE LET p == The(rs.pending)
             applied ==
                 IF p.scene_name # None THEN ApplyScene(rs, The(p.scene_name))
                 ELSE IF p.track_ids = {}
                      THEN IF rs.active_scene_name # None
                           THEN ApplyOverride(rs, p.session)
                           ELSE LoadSession(rs, p.session)
                      ELSE ApplyPartial(rs, p.session, p.track_ids)
         IN [applied EXCEPT !.pending = None]

\* advance_step that latches passed_non_zero on the wrap to step 0 as well
AdvanceStepLatchesOnWrap(rs) ==
    LET pos == PositionAdvance(rs.position)
    IN [rs EXCEPT
          !.position = pos,
          !.pending =
              IF rs.pending # None /\ The(rs.pending).timing = "seq"
              THEN Some([The(rs.pending) EXCEPT !.passed_non_zero = TRUE])
              ELSE rs.pending]

\* RuntimeState.advance_step
AdvanceStep(rs) ==
    LET pos == PositionAdvance(rs.position)
    IN [rs EXCEPT
          !.position = pos,
          !.pending =
              IF rs.pending # None /\ The(rs.pending).timing = "seq" /\ pos.step > 0
              THEN Some([The(rs.pending) EXCEPT !.passed_non_zero = TRUE])
              ELSE rs.pending]

\* RuntimeState.reset_position
ResetPosition(rs) == [rs EXCEPT !.position = PositionReset(rs.position)]

\* RuntimeState.load_compiled_session
LoadCompiledSession(rs, data) == LoadSession(rs, SessionFromDict(data))

\* ---------------------------------------------------------------------
\* LoopEngine state
\* ---------------------------------------------------------------------
VARIABLES
    state,                      \* self.state: RuntimeState
    running,                    \* self._running
    midi_enabled,               \* self._midi_enabled
    midi_connected,             \* self._midi.is_connected
    step_anchor_time,           \* self._step_anchor_time: None or set
    step_count,                 \* self._step_count
    suppress_next_drift_reset,  \* self._suppress_next_drift_reset
    drift_stats,                \* self._drift_stats: reset_count, max_drift_ms
    clock_generator,            \* ClockGenerator: anchor, pulse count, suppress flag,
                                \* and the pulse duration its loop computed last
    step_clock,                 \* perf_counter readings of the step loop, microseconds
    pending_note_offs,          \* NoteScheduler._pending_note_offs
    active_notes,               \* MidiSender._active_notes: the notes sounding
    commands_connected,         \* CommandReceiver._socket is open, handlers registered
    inbox,                      \* commands waiting in the CommandSource
    next_seq,                   \* number of commands the CommandSource has received
    last_handled,               \* receive number of the last handled command
    midi_sent,                  \* MidiOutput calls made by the last action
    events,                     \* StateSink events published or scheduled by the last action
    result,                     \* CommandResult returned by the last action
    dispatched,                 \* step and session processed by the last step iteration
    call,                       \* handler, payload and prior playback state of the last action
    queued,                     \* history: the compile queued last and not yet applied
    tasks,                      \* run(): its loops still running, and how it ended
    connections,                \* calls made by start(): connects, registrations, loads
    destinations_loaded,        \* self._destinations_loaded
    connection_status,          \* self._connection_status
    message_scheduler,          \* MessageScheduler: messages by step, bpm, pattern length
    destination_router,         \* DestinationRouter._senders: the registered ids
    delivered,                  \* what the last send_messages gave to each sender
    state_sink,                 \* InProcessStateSink: maxsize and queue
    step_suspended,             \* _step_loop: the await at which an iteration is suspended
    tempo_changed               \* history: the BPM was changed while Playing by a bpm
                                \* command or a pending apply, no drift reset since

vars == <<state, running, midi_enabled, midi_connected, step_anchor_time,
          step_count, suppress_next_drift_reset, drift_stats, clock_generator,
          step_clock, pending_note_offs, active_notes, commands_connected, inbox,
          next_seq, last_handled,
          midi_sent, events, result, dispatched, call, queued, tasks,
          connections, destinations_loaded, connection_status,
          message_scheduler, destination_router,
                   delivered, state_sink, step_suspended, tempo_changed>>

engine_timing == <<step_anchor_time, step_count, suppress_next_drift_reset,
                   drift_stats, clock_generator, step_clock>>
command_source == <<commands_connected, inbox, next_seq, last_handled>>
lifecycle == <<tasks, connections, destinations_loaded, connection_status,
               message_scheduler, destination_router,
                   delivered, state_sink, step_suspended>>

\* The loops run() gathers
Loops == {"command", "step", "clock", "note_off", "heartbeat"}

AnchorSet == Some("perf_counter")

\* The handler called by an action, its payload, and the playback state
\* it found
Called(handler, payload, rs) ==
    Some([handler |-> handler, payload |-> payload, prior |-> rs.playback_state])

\* CommandResult.ok(message) / CommandResult.error(message)
Ok(message) == Some([success |-> TRUE, message |-> message])
Error(message) == Some([success |-> FALSE, message |-> message])

\* The handler raised an exception to its caller instead of returning
Raised(exception) == Some([raised |-> exception])

\* ---------------------------------------------------------------------
\* MessageScheduler
\* ---------------------------------------------------------------------

\* MessageScheduler(): no messages, bpm 120, pattern length 4
EmptyScheduler ==
    [messages_by_step |-> EmptyDict, bpm |-> DEFAULT_BPM, pattern_length |-> 4]

\* load_messages lines 54-56: each message is appended, in batch order, to
\* the list of its step in the index
IndexMessages(index, messages) ==
    LET F[i \in 0..Len(messages)] ==
            IF i = 0 THEN index
            ELSE LET msg == messages[i]
                     before == IF msg.step \in DOMAIN F[i - 1]
                               THEN F[i - 1][msg.step] ELSE <<>>
                 IN (msg.step :> Append(before, msg)) @@ F[i - 1]
    IN F[Len(messages)]

\* load_messages that indexes the batch without clearing the index
LoadMessagesKeepsOld(scheduler, batch) ==
    [messages_by_step |->
        IndexMessages(scheduler.messages_by_step, batch.messages),
     bpm |-> batch.bpm,
     pattern_length |-> batch.pattern_length]

\* MessageScheduler.load_messages: the index is cleared, then filled
LoadMessages(scheduler, batch) ==
    [messages_by_step |-> IndexMessages(EmptyDict, batch.messages),
     bpm |-> batch.bpm,
     pattern_length |-> batch.pattern_length]

\* MessageScheduler.get_messages_at_step
GetMessagesAtStep(scheduler, step) ==
    IF step \in DOMAIN scheduler.messages_by_step
    THEN scheduler.messages_by_step[step] ELSE <<>>

\* MessageScheduler.message_count
MessageCount(scheduler) ==
    LET steps == DOMAIN scheduler.messages_by_step
        Sum[S \in SUBSET steps] ==
            IF S = {} THEN 0
            ELSE LET s == CHOOSE x \in S : TRUE
                 IN Len(scheduler.messages_by_step[s]) + Sum[S \ {s}]
    IN Sum[steps]

\* ---------------------------------------------------------------------
\* DestinationRouter
\* ---------------------------------------------------------------------

\* The destinations of a valid destinations.yaml
ConfiguredDestinations == {"superdirt", "volca"}

\* send_messages lines 80-83: the ids in the order of their first message
\* (the key order of by_destination)
DestinationOrder(messages) ==
    LET F[i \in 0..Len(messages)] ==
            IF i = 0 THEN <<>>
            ELSE IF \E j \in 1..Len(F[i - 1]) :
                        F[i - 1][j] = messages[i].destination_id
                 THEN F[i - 1]
                 ELSE Append(F[i - 1], messages[i].destination_id)
    IN F[Len(messages)]

\* send_messages lines 80-83: the messages of one destination, in order
MessagesFor(messages, dest_id) ==
    SelectSeq(messages, LAMBDA msg : msg.destination_id = dest_id)

\* The params of a list of messages
ParamsOf(messages) == [i \in DOMAIN messages |-> messages[i].params]

\* send_messages that stops at the first destination that is not registered
SendMessagesStopsAtUnknown(senders, messages) ==
    LET order == DestinationOrder(messages)
        known == {i \in DOMAIN order :
                     \A j \in 1..i : order[j] \in senders}
    IN [d \in {order[i] : i \in known} |->
            ParamsOf(MessagesFor(messages, d))]

\* DestinationRouter.send_messages: what each registered sender receives
\* through send_message, in order; unregistered destinations are skipped
SendMessages(senders, messages) ==
    LET order == DestinationOrder(messages)
    IN [d \in {order[i] : i \in DOMAIN order} \cap senders |->
            ParamsOf(MessagesFor(messages, d))]

\* ---------------------------------------------------------------------
\* InProcessStateSink
\* ---------------------------------------------------------------------

\* asyncio.Queue.full: a maxsize of 0 or less means no limit
QueueFull(sink) == sink.maxsize > 0 /\ Len(sink.queue) >= sink.maxsize

\* asyncio.Queue.put_nowait: the queue after it, None when it raises
\* QueueFull
PutNowait(sink, event) ==
    IF QueueFull(sink) THEN None
    ELSE Some([sink EXCEPT !.queue = Append(sink.queue, event)])

\* asyncio.Queue.get_nowait: the queue after it, None when it raises
\* QueueEmpty
GetNowait(sink) ==
    IF sink.queue = <<>> THEN None
    ELSE Some([sink EXCEPT !.queue = Tail(sink.queue)])

\* _push that drops the event when the queue is full
PushDropsNewest(sink, event) ==
    IF PutNowait(sink, event) # None THEN The(PutNowait(sink, event))
    ELSE sink

\* InProcessStateSink._push: put, and on QueueFull drop the oldest entry
\* and put again
Push(sink, event) ==
    IF PutNowait(sink, event) # None THEN The(PutNowait(sink, event))
    ELSE LET dropped == IF GetNowait(sink) # None THEN The(GetNowait(sink))
                        ELSE sink
         IN IF PutNowait(dropped, event) # None
            THEN The(PutNowait(dropped, event))
            ELSE dropped

\* LoopEngine.__init__
Init ==
    /\ state = InitialRuntimeState
    /\ running = FALSE
    /\ midi_enabled = FALSE
    /\ midi_connected = FALSE
    /\ step_anchor_time = None
    /\ step_count = 0
    /\ suppress_next_drift_reset = FALSE
    /\ drift_stats = [reset_count |-> 0, max_drift_ms |-> 0]
    /\ clock_generator = [clock_anchor_time |-> None, pulse_count |-> 0,
                          suppress_next_drift_reset |-> FALSE,
                          pulse_duration |-> 0]
    /\ step_clock = [current_time |-> 0, anchor_time |-> 0, wake_time |-> 0]
    /\ pending_note_offs = <<>>
    /\ active_notes = {}
    /\ inbox = <<>>
    /\ next_seq = 0
    /\ last_handled = 0
    /\ midi_sent = <<>>
    /\ events = <<>>
    /\ result = None
    /\ dispatched = None
    /\ call = None
    /\ queued = None
    /\ tempo_changed = FALSE
    /\ tasks = [alive |-> {}, run |-> "idle"]
    /\ connections = [osc |-> 0, midi |-> 0, commands |-> 0, publisher |-> 0,
                      handlers |-> 0, destinations |-> 0]
    /\ destinations_loaded = FALSE
    /\ connection_status = [midi |-> FALSE]
    /\ message_scheduler = EmptyScheduler
    /\ destination_router = {}
    /\ delivered = EmptyDict
    /\ state_sink = [maxsize |-> DEFAULT_QUEUE_SIZE, queue |-> <<>>]
    /\ step_suspended = None
    /\ commands_connected = FALSE

\* ClockGenerator.send_start / send_stop / send_continue: forwarded to the
\* MidiOutput only when it is connected
ClockSend(connected, message) == IF connected THEN <<message>> ELSE <<>>

\* suppress_next_drift_reset that leaves the pulse counter where it was
ClockSuppressKeepsPulses(cg) ==
    IF cg.clock_anchor_time # None
    THEN [cg EXCEPT !.clock_anchor_time = AnchorSet,
                    !.suppress_next_drift_reset = TRUE]
    ELSE cg

\* ClockGenerator.suppress_next_drift_reset
ClockSuppressNextDriftReset(cg) ==
    IF cg.clock_anchor_time # None
    THEN [cg EXCEPT !.clock_anchor_time = AnchorSet,
                    !.pulse_count = 0,
                    !.suppress_next_drift_reset = TRUE]
    ELSE cg

\* LoopEngine.start lines 175-190: each call connects the senders, the
\* command source and the telemetry sink, registers the handlers and loads
\* the destinations
StartCalls(done) ==
    [osc |-> done.osc + 1, midi |-> done.midi + 1,
     commands |-> done.commands + 1, publisher |-> done.publisher + 1,
     handlers |-> done.handlers + 1, destinations |-> done.destinations + 1]

\* LoopEngine.start: connect the outputs and the command source, register
\* the handlers, load the destinations; MIDI is enabled when a port opens,
\* the destinations are loaded when destinations.yaml is found and valid
StartEngine(midi_available, config_valid) ==
    /\ connections.osc < MaxStarts
    /\ midi_connected' = (midi_connected \/ midi_available)
    /\ midi_enabled' = (midi_enabled \/ midi_available)
    /\ commands_connected' = TRUE
    /\ connections' = StartCalls(connections)
    /\ destinations_loaded' = (destinations_loaded \/ config_valid)
    /\ destination_router' = IF config_valid
                             THEN destination_router \cup ConfiguredDestinations
                             ELSE destination_router
    /\ midi_sent' = <<>>
    /\ events' = <<>>
    /\ result' = None
    /\ dispatched' = None
    /\ call' = None
    /\ UNCHANGED <<state, running, engine_timing, pending_note_offs, active_notes, inbox,
                   next_seq, last_handled, queued, tasks, connection_status,
                   message_scheduler, delivered, state_sink, step_suspended, tempo_changed>>

\* start() where no destinations.yaml is found
Start(midi_available) == StartEngine(midi_available, FALSE)

\* stop() leaving the running flag as it is
RunningAfterStopKept == running

\* LoopEngine.stop line 196: self._running = False
RunningAfterStop == FALSE

\* LoopEngine.run: set the running flag and gather the loops; the clock
\* loop returns at once when the MIDI output is not connected
Run ==
    /\ ~running
    /\ tasks.run # "active"
    /\ running' = TRUE
    /\ tasks' = [alive |-> IF midi_connected THEN Loops
                           ELSE Loops \ {"clock"},
                 run |-> "active"]
    /\ midi_sent' = <<>>
    /\ events' = <<>>
    /\ result' = None
    /\ dispatched' = None
    /\ call' = None
    /\ UNCHANGED <<state, midi_enabled, midi_connected, engine_timing,
                   pending_note_offs, active_notes, command_source, queued, connections,
                   destinations_loaded, connection_status, message_scheduler, destination_router,
                   delivered, state_sink, step_suspended,
                   tempo_changed>>

\* ---------------------------------------------------------------------
\* Command handlers: the new playback fields and outputs of each handler
\* ---------------------------------------------------------------------

\* _handle_play sending MIDI Start on every transition to Playing
PlayEffectAlwaysStart(rs, enabled, connected) ==
    IF rs.playback_state = PLAYING
    THEN [state |-> rs, midi |-> <<>>, events |-> <<>>,
          result |-> Ok("Already playing")]
    ELSE [state |-> [rs EXCEPT !.playback_state = PLAYING],
          midi |-> IF enabled THEN ClockSend(connected, "start") ELSE <<>>,
          events |-> <<"status", "tracks">>,
          result |-> Ok("")]

\* LoopEngine._handle_play
PlayEffect(rs, enabled, connected) ==
    IF rs.playback_state = PLAYING
    THEN [state |-> rs, midi |-> <<>>, events |-> <<>>,
          result |-> Ok("Already playing")]
    ELSE [state |-> [rs EXCEPT !.playback_state = PLAYING],
          midi |-> IF enabled
                   THEN ClockSend(connected,
                                  IF rs.playback_state = STOPPED
                                  THEN "start" ELSE "continue")
                   ELSE <<>>,
          events |-> <<"status", "tracks">>,
          result |-> Ok("")]

DoPlay ==
    LET e == PlayEffect(state, midi_enabled, midi_connected)
    IN /\ state' = e.state
       /\ midi_sent' = e.midi
       /\ events' = e.events
       /\ result' = e.result
       /\ dispatched' = None
       /\ call' = Called("play", EmptyDict, state)
       /\ UNCHANGED lifecycle
       /\ queued' = queued
       /\ tempo_changed' = tempo_changed
       /\ UNCHANGED <<running, midi_enabled, midi_connected, engine_timing,
                      pending_note_offs, active_notes>>

\* MidiSender.all_notes_off that sends no note-off
AllNotesOffSendsNothing(active, connected) == active

\* MidiSender.all_notes_off: with the port open, a note-off goes out for
\* every note of _active_notes and send_note_off removes it
AllNotesOff(active, connected) == IF connected THEN {} ELSE active

\* MidiSender._active_notes after the MidiOutput calls of a handler
ActiveAfter(active, messages, connected) ==
    IF \E i \in 1..Len(messages) : messages[i] = "all_notes_off"
    THEN AllNotesOff(active, connected)
    ELSE active

\* LoopEngine._handle_stop
StopEffect(rs, enabled, connected, anchor, count, notes) ==
    IF rs.playback_state = STOPPED
    THEN [state |-> rs, midi |-> <<>>, events |-> <<>>,
          anchor |-> anchor, count |-> count, notes |-> notes,
          result |-> Ok("Already stopped")]
    ELSE [state |-> [ResetPosition(rs) EXCEPT !.playback_state = STOPPED],
          midi |-> <<"all_notes_off">> \o
                   (IF rs.playback_state = PLAYING /\ enabled
                    THEN ClockSend(connected, "stop") ELSE <<>>),
          events |-> <<"status">>,
          anchor |-> None, count |-> 0, notes |-> <<>>,
          result |-> Ok("")]

DoStop ==
    LET e == StopEffect(state, midi_enabled, midi_connected,
                        step_anchor_time, step_count, pending_note_offs)
    IN /\ state' = e.state
       /\ midi_sent' = e.midi
       /\ events' = e.events
       /\ step_anchor_time' = e.anchor
       /\ step_count' = e.count
       /\ pending_note_offs' = e.notes
       /\ active_notes' = ActiveAfter(active_notes, e.midi, midi_connected)
       /\ result' = e.result
       /\ dispatched' = None
       /\ call' = Called("stop", EmptyDict, state)
       /\ UNCHANGED lifecycle
       /\ queued' = queued
       /\ tempo_changed' = tempo_changed
       /\ UNCHANGED <<running, midi_enabled, midi_connected,
                      suppress_next_drift_reset, drift_stats, clock_generator,
                      step_clock>>

\* _handle_pause leaving the note-off queue and the anchor as they are
PauseEffectKeepsTiming(rs, enabled, connected, anchor, notes) ==
    IF rs.playback_state # PLAYING
    THEN [state |-> rs, midi |-> <<>>, events |-> <<>>,
          anchor |-> anchor, notes |-> notes,
          result |-> Ok("Not playing")]
    ELSE [state |-> [rs EXCEPT !.playback_state = PAUSED],
          midi |-> IF enabled THEN ClockSend(connected, "stop") ELSE <<>>,
          events |-> <<"status">>,
          anchor |-> anchor, notes |-> notes,
          result |-> Ok("")]

\* _handle_pause returning early only when Stopped
PauseEffectWhenPaused(rs, enabled, connected, anchor, notes) ==
    IF rs.playback_state = STOPPED
    THEN [state |-> rs, midi |-> <<>>, events |-> <<>>,
          anchor |-> anchor, notes |-> notes,
          result |-> Ok("Not playing")]
    ELSE [state |-> [rs EXCEPT !.playback_state = PAUSED],
          midi |-> <<"all_notes_off">> \o
                   (IF enabled THEN ClockSend(connected, "stop") ELSE <<>>),
          events |-> <<"status">>,
          anchor |-> None, notes |-> <<>>,
          result |-> Ok("")]

\* LoopEngine._handle_pause
PauseEffect(rs, enabled, connected, anchor, notes) ==
    IF rs.playback_state # PLAYING
    THEN [state |-> rs, midi |-> <<>>, events |-> <<>>,
          anchor |-> anchor, notes |-> notes,
          result |-> Ok("Not playing")]
    ELSE [state |-> [rs EXCEPT !.playback_state = PAUSED],
          midi |-> <<"all_notes_off">> \o
                   (IF enabled THEN ClockSend(connected, "stop") ELSE <<>>),
          events |-> <<"status">>,
          anchor |-> None, notes |-> <<>>,
          result |-> Ok("")]

DoPause ==
    LET e == PauseEffect(state, midi_enabled, midi_connected,
                         step_anchor_time, pending_note_offs)
    IN /\ state' = e.state
       /\ midi_sent' = e.midi
       /\ events' = e.events
       /\ step_anchor_time' = e.anchor
       /\ pending_note_offs' = e.notes
       /\ active_notes' = ActiveAfter(active_notes, e.midi, midi_connected)
       /\ result' = e.result
       /\ dispatched' = None
       /\ call' = Called("pause", EmptyDict, state)
       /\ UNCHANGED lifecycle
       /\ queued' = queued
       /\ tempo_changed' = tempo_changed
       /\ UNCHANGED <<running, midi_enabled, midi_connected, step_count,
                      suppress_next_drift_reset, drift_stats, clock_generator,
                      step_clock>>

\* _handle_panic that silences the notes and keeps the playback position
PanicEffectKeepsPosition(rs, enabled) ==
    [state |-> [rs EXCEPT !.playback_state = STOPPED],
     midi |-> (IF enabled THEN <<"all_notes_off">> ELSE <<>>)
              \o <<"all_notes_off">>,
     events |-> <<"status">>,
     anchor |-> None, count |-> 0, notes |-> <<>>,
     result |-> Ok("")]

\* LoopEngine._handle_panic (with _silence_all_notes)
PanicEffect(rs, enabled) ==
    [state |-> [ResetPosition(rs) EXCEPT !.playback_state = STOPPED],
     midi |-> (IF enabled THEN <<"all_notes_off">> ELSE <<>>)
              \o <<"all_notes_off">>,
     events |-> <<"status">>,
     anchor |-> None, count |-> 0, notes |-> <<>>,
     result |-> Ok("")]

DoPanic ==
    LET e == PanicEffect(state, midi_enabled)
    IN /\ state' = e.state
       /\ midi_sent' = e.midi
       /\ events' = e.events
       /\ step_anchor_time' = e.anchor
       /\ step_count' = e.count
       /\ pending_note_offs' = e.notes
       /\ active_notes' = ActiveAfter(active_notes, e.midi, midi_connected)
       /\ result' = e.result
       /\ dispatched' = None
       /\ call' = Called("panic", EmptyDict, state)
       /\ UNCHANGED lifecycle
       /\ queued' = queued
       /\ tempo_changed' = tempo_changed
       /\ UNCHANGED <<running, midi_enabled, midi_connected,
                      suppress_next_drift_reset, drift_stats, clock_generator,
                      step_clock>>

\* LoopEngine._handle_midi_port: MidiSender.set_port closes an open port
\* (disconnect sends all_notes_off first) and opens the named one
DoMidiPort(port_opens) ==
    /\ midi_connected' = port_opens
    /\ midi_enabled' = port_opens
    /\ midi_sent' = <<>>
    /\ events' = <<>>
    /\ result' = IF port_opens THEN Ok("")
                 ELSE Error("Failed to connect to MIDI port")
    /\ dispatched' = None
    /\ call' = Called("midi_port", [port_name |-> "port"], state)
    /\ UNCHANGED lifecycle
    /\ queued' = queued
    /\ tempo_changed' = tempo_changed
    /\ active_notes' = AllNotesOff(active_notes, midi_connected)
    /\ UNCHANGED <<state, running, engine_timing, pending_note_offs>>

\* ---------------------------------------------------------------------
\* bpm
\* ---------------------------------------------------------------------

\* BpmCommand(**payload): bpm is required and greater than 0
BpmCommandValid(payload) == "bpm" \in DOMAIN payload /\ payload.bpm > 0

\* _handle_bpm that never resets the anchor
BpmResetsAnchorNever(rs, anchor) == FALSE

\* LoopEngine._handle_bpm line 552: the anchors are reset during playback
BpmResetsAnchor(rs, anchor) == Playing(rs) /\ anchor # None

\* LoopEngine._handle_bpm, called when the clock reads `at`
DoBpmAt(payload, at) ==
    /\ call' = Called("bpm", payload, state)
    /\ UNCHANGED lifecycle
    /\ midi_sent' = <<>>
    /\ events' = <<>>
    /\ dispatched' = None
    /\ queued' = queued
    /\ UNCHANGED <<running, midi_enabled, midi_connected, drift_stats,
                   pending_note_offs, active_notes>>
    /\ IF ~BpmCommandValid(payload)
       THEN /\ result' = Error("Invalid bpm command")
            /\ tempo_changed' = tempo_changed
            /\ UNCHANGED <<state, step_anchor_time, step_count,
                           suppress_next_drift_reset, clock_generator,
                           step_clock>>
       ELSE /\ result' = Ok("")
            /\ state' = SetBpm(state, payload.bpm)
            /\ tempo_changed' =
                  (tempo_changed \/ (Playing(state) /\ Bpm(state') # Bpm(state)))
            /\ IF BpmResetsAnchor(state, step_anchor_time)
               THEN /\ step_anchor_time' = AnchorSet
                    /\ step_count' = 0
                    /\ suppress_next_drift_reset' = TRUE
                    /\ clock_generator' =
                          ClockSuppressNextDriftReset(clock_generator)
                    /\ step_clock' = [step_clock EXCEPT !.anchor_time = at]
               ELSE UNCHANGED <<step_anchor_time, step_count,
                                suppress_next_drift_reset, clock_generator,
                                step_clock>>

\* ---------------------------------------------------------------------
\* compile
\* ---------------------------------------------------------------------

\* LoopEngine._handle_compile, lines 313-323: timing and track_ids of the
\* payload; bar and no track when apply is missing
CompileTiming(payload) ==
    IF "apply" \in DOMAIN payload
    THEN IF "timing" \in DOMAIN payload.apply THEN payload.apply.timing ELSE "bar"
    ELSE "bar"

CompileTrackIds(payload) ==
    IF "apply" \in DOMAIN payload
    THEN IF "track_ids" \in DOMAIN payload.apply
         THEN payload.apply.track_ids ELSE {}
    ELSE {}

\* _handle_compile queueing every compile received while Playing
CompileEffectQueuesNow(rs, payload) ==
    LET timing == CompileTiming(payload)
        track_ids == CompileTrackIds(payload)
    IN IF ~Playing(rs)
       THEN LET loaded == LoadCompiledSession(rs, payload)
            IN IF track_ids # {}
               THEN ClearNonSpecifiedEvents(loaded, track_ids)
               ELSE loaded
       ELSE SetPendingChange(rs, payload, timing, track_ids)

\* LoopEngine._handle_compile, lines 325-346: the RuntimeState it leaves
CompileEffect(rs, payload) ==
    LET timing == CompileTiming(payload)
        track_ids == CompileTrackIds(payload)
    IN IF ~Playing(rs) \/ timing = "now"
       THEN LET loaded == LoadCompiledSession(rs, payload)
            IN IF track_ids # {}
               THEN ClearNonSpecifiedEvents(loaded, track_ids)
               ELSE loaded
       ELSE SetPendingChange(rs, payload, timing, track_ids)

\* A value of a payload that is not a dict where one is required
NotADict == [not_a_dict |-> TRUE]

\* CompileCommand(**payload): environment, tracks and sequences are dicts
CompileCommandValid(payload) ==
    \A key \in {"environment", "tracks", "sequences"} \cap DOMAIN payload :
        payload[key] # NotADict

\* ApplyCommand.from_dict reads data["timing"]: a non-empty apply without
\* timing makes CompiledSession.from_dict raise KeyError
CompileRaises(payload) ==
    /\ "apply" \in DOMAIN payload
    /\ payload.apply # EmptyDict
    /\ "timing" \notin DOMAIN payload.apply

\* Whether _handle_compile gets as far as changing the RuntimeState
CompileAccepted(payload) ==
    CompileCommandValid(payload) /\ ~CompileRaises(payload)

\* LoopEngine._handle_compile
DoCompile(payload) ==
    /\ state' = IF CompileAccepted(payload)
                THEN CompileEffect(state, payload) ELSE state
    /\ events' = IF CompileAccepted(payload)
                    /\ (~Playing(state) \/ CompileTiming(payload) = "now")
                 THEN <<"status", "tracks">> ELSE <<>>
    /\ midi_sent' = <<>>
    /\ result' = IF ~CompileCommandValid(payload)
                 THEN Error("Invalid compile command")
                 ELSE IF CompileRaises(payload) THEN Raised("KeyError")
                 ELSE Ok("")
    /\ dispatched' = None
    /\ call' = Called("compile", payload, state)
    /\ UNCHANGED lifecycle
    /\ tempo_changed' = tempo_changed
    /\ queued' = IF ~CompileAccepted(payload) THEN queued
                 ELSE IF ~Playing(state) \/ CompileTiming(payload) = "now"
                 THEN IF queued = None THEN None
                      ELSE Some([The(queued) EXCEPT !.overtaken = TRUE])
                 ELSE Some([timing |-> CompileTiming(payload),
                            session |-> SessionFromDict(payload),
                            track_ids |-> CompileTrackIds(payload),
                            advanced |-> FALSE,
                            replaced |-> state.pending # None,
                            overtaken |-> FALSE])
    /\ UNCHANGED <<running, midi_enabled, midi_connected, engine_timing,
                   pending_note_offs, active_notes>>

\* ---------------------------------------------------------------------
\* Step loop
\* ---------------------------------------------------------------------
Abs(x) == IF x < 0 THEN 0 - x ELSE x

Max(a, b) == IF a > b THEN a ELSE b

\* NoteScheduler.schedule_note_on_channel for each MIDI note of the step
ScheduleNotes(queue, notes, connected) ==
    IF connected THEN queue \o notes ELSE queue

\* MidiSender.send_note_on: a note sent on the open port is recorded in
\* _active_notes
SendNoteOns(active, notes, connected) ==
    IF connected THEN active \cup {notes[i] : i \in 1..Len(notes)} ELSE active

NoteOnCalls(notes, connected) ==
    IF connected THEN [i \in 1..Len(notes) |-> "note_on"] ELSE <<>>

\* LoopEngine._step_loop, lines 949-972: apply a due pending change
StepApply(rs) ==
    IF ShouldApplyPending(rs) THEN ExecutePending(GetEffective(rs)) ELSE rs

\* A step error that is logged and not published
StepErrorSilent == <<>>

\* LoopEngine._step_loop lines 1047-1050: the event of a caught step error
StepErrorEvents == <<"STEP_ERROR">>

\* LoopEngine._step_loop line 940: the iteration counter after a drift reset
PostResetStepCount == 1

\* A step loop that hands the messages of the step to the router in the
\* iteration that takes a drift reset as well
StepDispatchesDespiteDrift(drift_us) ==
    /\ Playing(state)
    /\ destinations_loaded
    /\ MessageCount(message_scheduler) > 0
    /\ GetMessagesAtStep(message_scheduler, state.position.step) # <<>>

\* LoopEngine._step_loop lines 976-995: a step that is processed hands the
\* scheduled messages of the current step to the router when the
\* destinations are loaded and the scheduler holds messages
StepDispatches(drift_us) ==
    /\ Playing(state)
    /\ Abs(drift_us) <= DRIFT_RESET_THRESHOLD_MS * 1000
    /\ destinations_loaded
    /\ MessageCount(message_scheduler) > 0
    /\ GetMessagesAtStep(message_scheduler, state.position.step) # <<>>

\* One iteration of LoopEngine._step_loop up to its sleep, the clock
\* readings apart. drift_us is current_time - expected_time in
\* microseconds; midi_notes is the step output of the StepProcessor;
\* raised tells whether the StepProcessor raises
StepIteration(drift_us, midi_notes, raised) ==
    /\ running
    /\ "step" \in tasks.alive
    /\ step_suspended = None
    /\ result' = None
    /\ call' = None
    /\ UNCHANGED <<tasks, connections, destinations_loaded, connection_status,
                   message_scheduler, destination_router, state_sink, step_suspended>>
    /\ UNCHANGED <<running, midi_enabled, midi_connected, command_source>>
    /\ delivered' = IF StepDispatches(drift_us)
                    THEN SendMessages(destination_router,
                             GetMessagesAtStep(message_scheduler,
                                               state.position.step))
                    ELSE delivered
    /\ IF ~Playing(state)
       THEN \* lines 899-904
            /\ step_anchor_time' = None
            /\ step_count' = 0
            /\ midi_sent' = <<>>
            /\ events' = <<>>
            /\ dispatched' = None
            /\ UNCHANGED <<state, suppress_next_drift_reset, drift_stats,
                           clock_generator, pending_note_offs, active_notes, queued,
                   tempo_changed>>
       ELSE LET count == IF step_anchor_time = None THEN 0 ELSE step_count
                max_drift == Max(drift_stats.max_drift_ms,
                                 Abs(drift_us) \div 1000)
            IN IF Abs(drift_us) > DRIFT_RESET_THRESHOLD_MS * 1000
               THEN \* lines 923-944: drift reset, no step is processed
                    /\ step_anchor_time' = AnchorSet
                    /\ step_count' = PostResetStepCount
                    /\ suppress_next_drift_reset' = FALSE
                    /\ IF suppress_next_drift_reset
                       THEN /\ drift_stats' = [drift_stats EXCEPT
                                                  !.max_drift_ms = max_drift]
                            /\ events' = <<>>
                       ELSE \* _handle_drift_reset
                            /\ drift_stats.reset_count < MaxResets
                            /\ drift_stats' =
                                  [reset_count |-> drift_stats.reset_count + 1,
                                   max_drift_ms |-> max_drift]
                            /\ events' = <<"CLOCK_DRIFT_RESET">>
                    /\ midi_sent' = <<>>
                    /\ dispatched' = None
                    /\ tempo_changed' = FALSE
                    /\ UNCHANGED <<state, clock_generator, pending_note_offs, active_notes,
                                   queued>>
               ELSE \* lines 949-1058: process the step, then advance
                    LET applies == ShouldApplyPending(state)
                        applied == GetEffective(StepApply(state))
                        bpm_changed == applies /\ Bpm(applied) # Bpm(state)
                        base == IF bpm_changed THEN 0 ELSE count
                        step == state.position.step
                        schedule == ~raised /\ midi_enabled /\ midi_notes # <<>>
                    IN /\ base < MaxStepCount
                       /\ schedule =>
                            Len(pending_note_offs) + Len(midi_notes) <= MaxPendingNotes
                       /\ state' = AdvanceStep(applied)
                       /\ queued' =
                             IF applies \/ queued = None THEN None
                             ELSE IF state'.position.step > 0
                                  THEN Some([The(queued) EXCEPT !.advanced = TRUE])
                                  ELSE queued
                       /\ step_anchor_time' = AnchorSet
                       /\ step_count' = base + 1
                       /\ suppress_next_drift_reset' =
                             (suppress_next_drift_reset \/ bpm_changed)
                       /\ tempo_changed' = (tempo_changed \/ bpm_changed)
                       /\ clock_generator' =
                             IF bpm_changed
                             THEN ClockSuppressNextDriftReset(clock_generator)
                             ELSE clock_generator
                       /\ drift_stats' = [drift_stats EXCEPT
                                             !.max_drift_ms = max_drift]
                       /\ dispatched' =
                             IF raised THEN None
                             ELSE Some([step |-> step,
                                        session |-> Effective(applied)])
                       /\ pending_note_offs' =
                             IF schedule
                             THEN ScheduleNotes(pending_note_offs, midi_notes,
                                                midi_connected)
                             ELSE pending_note_offs
                       /\ active_notes' =
                             IF schedule
                             THEN SendNoteOns(active_notes, midi_notes,
                                              midi_connected)
                             ELSE active_notes
                       /\ midi_sent' =
                             IF schedule
                             THEN NoteOnCalls(midi_notes, midi_connected)
                             ELSE <<>>
                       /\ events' =
                             (IF applies THEN <<"tracks">> ELSE <<>>)
                             \o (IF raised THEN StepErrorEvents
                                 ELSE (IF step % 4 = 0 THEN <<"position">>
                                       ELSE <<>>)
                                      \o (IF step % 16 = 0 THEN <<"tracks">>
                                          ELSE <<>>))

\* A step-loop iteration whose drift is given in milliseconds and whose
\* StepProcessor does not raise; the clock readings are left out
StepLoop(drift_ms, midi_notes) ==
    /\ StepIteration(drift_ms * 1000, midi_notes, FALSE)
    /\ UNCHANGED step_clock

\* LoopEngine._step_loop lines 911-916: the drift of an iteration that
\* reads the clock at t (a missing anchor is set to t first)
DriftAt(t) ==
    LET anchor == IF step_anchor_time = None THEN t
                  ELSE step_clock.anchor_time
        count == IF step_anchor_time = None THEN 0 ELSE step_count
    IN t - (anchor + count * state.step_duration)

\* The time at which the iteration that follows its sleep reads the clock
WakeAt(lateness) == step_clock.wake_time + lateness

\* A drift reset that leaves the anchor where it was
ResetClockKeepsAnchor(t, step_duration) ==
    [current_time |-> t, anchor_time |-> step_clock.anchor_time,
     wake_time |-> t + step_duration]

\* The clock readings a drift reset leaves (lines 924-942): the anchor is
\* the current time, and the loop sleeps one step_duration
ResetClock(t, step_duration) ==
    [current_time |-> t, anchor_time |-> t, wake_time |-> t + step_duration]

\* One iteration of LoopEngine._step_loop with its clock readings: it
\* wakes `lateness` after the end of the sleep it asked for, and sleeps
\* step_duration after a reset (line 941), else until the next expected
\* time (lines 1056-1058)
StepLoopAt(lateness, raised) ==
    LET t == WakeAt(lateness)
        step_duration == state.step_duration
        anchor == IF step_anchor_time = None THEN t
                  ELSE step_clock.anchor_time
    IN /\ t <= MaxClock
       /\ StepIteration(DriftAt(t), <<>>, raised)
       /\ step_clock' =
             IF ~Playing(state) THEN step_clock
             ELSE IF Abs(DriftAt(t)) > DRIFT_RESET_THRESHOLD_MS * 1000
             THEN ResetClock(t, step_duration)
             ELSE LET new_anchor == IF Bpm(state') # Bpm(state) THEN t
                                    ELSE anchor
                  IN [current_time |-> t, anchor_time |-> new_anchor,
                      wake_time |->
                          Max(t, new_anchor + step_count' * step_duration)]

\* ---------------------------------------------------------------------
\* Note-off loop
\* ---------------------------------------------------------------------

\* NoteScheduler.process_pending_note_offs: the entries of `due` (indices
\* whose off_time has passed) are sent and removed
ProcessPendingNoteOffs(queue, due) ==
    LET keep == {i \in 1..Len(queue) : i \notin due}
        F[i \in 0..Len(queue)] ==
            IF i = 0 THEN <<>>
            ELSE IF i \in keep THEN Append(F[i - 1], queue[i]) ELSE F[i - 1]
    IN F[Len(queue)]

\* MidiSender.send_note_off for the due entries: each note sent leaves
\* _active_notes
SendNoteOffs(active, queue, due) == active \ {queue[i] : i \in due}

\* A loop of run() ends by an exception: gather passes the first one on to
\* the caller of run(), the other loops keep running
TaskRaised(loop) ==
    [alive |-> tasks.alive \ {loop},
     run |-> IF tasks.run = "active" THEN "raised" ELSE tasks.run]

\* A loop of run() returns; run() returns with the last one
TaskReturned(loop) ==
    [alive |-> tasks.alive \ {loop},
     run |-> IF tasks.run = "active" /\ tasks.alive \ {loop} = {}
             THEN "returned" ELSE tasks.run]

\* One iteration of LoopEngine._note_off_loop; raised tells whether the
\* MidiOutput raises on the first note-off. The loop has no handler for it
NoteOffIteration(due, raised) ==
    /\ running
    /\ "note_off" \in tasks.alive
    /\ due \subseteq 1..Len(pending_note_offs)
    /\ IF raised
       THEN /\ midi_connected /\ due # {}
            /\ tasks' = TaskRaised("note_off")
            /\ pending_note_offs' = pending_note_offs
            /\ active_notes' = active_notes
            /\ midi_sent' = <<>>
       ELSE /\ tasks' = tasks
            /\ active_notes' =
                  IF midi_connected
                  THEN SendNoteOffs(active_notes, pending_note_offs, due)
                  ELSE active_notes
            /\ pending_note_offs' =
                  IF midi_connected
                  THEN ProcessPendingNoteOffs(pending_note_offs, due)
                  ELSE pending_note_offs
            /\ midi_sent' = IF midi_connected
                            THEN [i \in 1..Cardinality(due) |-> "note_off"]
                            ELSE <<>>
    /\ events' = <<>>
    /\ result' = None
    /\ dispatched' = None
    /\ call' = None
    /\ UNCHANGED <<state, running, midi_enabled, midi_connected, engine_timing,
                   command_source, queued, connections, destinations_loaded,
                   connection_status, message_scheduler, destination_router,
                   delivered, state_sink, step_suspended, tempo_changed>>

\* A note-off loop iteration in which nothing raises
NoteOffLoop(due) == NoteOffIteration(due, FALSE)

\* ---------------------------------------------------------------------
\* Clock loop, heartbeat loop, command loop errors
\* ---------------------------------------------------------------------

\* ClockGenerator.calculate_pulse_duration
CalculatePulseDuration(step_duration) == step_duration \div PULSES_PER_STEP

\* One iteration of ClockGenerator.run_clock_loop, run by
\* LoopEngine._clock_loop. drift_ms is current_time - expected_time; raised
\* tells whether MidiOutput.send_clock raises. The loop has no handler for
\* it. The pulse duration is computed from state.step_duration in every
\* iteration that finds the engine playing (line 127)
ClockLoop(drift_ms, raised) ==
    /\ running
    /\ "clock" \in tasks.alive
    /\ events' = <<>>
    /\ result' = None
    /\ dispatched' = None
    /\ call' = None
    /\ UNCHANGED <<state, running, midi_enabled, midi_connected,
                   step_anchor_time, step_count, suppress_next_drift_reset,
                   drift_stats, step_clock, pending_note_offs, active_notes, command_source,
                   queued, connections, destinations_loaded, connection_status,
                   message_scheduler, destination_router,
                   delivered, state_sink, step_suspended, tempo_changed>>
    /\ IF ~Playing(state)
       THEN /\ clock_generator' = [clock_generator EXCEPT
                                     !.clock_anchor_time = None,
                                     !.pulse_count = 0]
            /\ midi_sent' = <<>>
            /\ tasks' = tasks
       ELSE LET count == IF clock_generator.clock_anchor_time = None THEN 0
                         ELSE clock_generator.pulse_count
            IN IF Abs(drift_ms) > CLOCK_DRIFT_RESET_THRESHOLD_MS
               THEN /\ clock_generator' =
                          [clock_generator EXCEPT
                              !.clock_anchor_time = AnchorSet,
                              !.pulse_duration =
                                  CalculatePulseDuration(state.step_duration),
                              !.pulse_count = 1,
                              !.suppress_next_drift_reset = FALSE]
                    /\ midi_sent' = <<>>
                    /\ tasks' = tasks
               ELSE IF raised
               THEN /\ clock_generator' =
                          [clock_generator EXCEPT
                              !.clock_anchor_time = AnchorSet,
                              !.pulse_duration =
                                  CalculatePulseDuration(state.step_duration),
                              !.pulse_count = count]
                    /\ midi_sent' = <<>>
                    /\ tasks' = TaskRaised("clock")
               ELSE /\ count < MaxPulses
                    /\ clock_generator' =
                          [clock_generator EXCEPT
                              !.clock_anchor_time = AnchorSet,
                              !.pulse_duration =
                                  CalculatePulseDuration(state.step_duration),
                              !.pulse_count = count + 1]
                    /\ midi_sent' = ClockSend(midi_connected, "clock")
                    /\ tasks' = tasks

\* LoopEngine._check_connections: an error event for the MIDI output that
\* was connected at the last check and is not any more
ConnectionLost(status, connected) ==
    IF status.midi /\ ~connected THEN <<"CONNECTION_LOST_MIDI">> ELSE <<>>

\* One iteration of LoopEngine._heartbeat_loop; raised tells whether the
\* StateSink raises on the heartbeat. The loop has no handler for it
HeartbeatLoop(raised) ==
    /\ running
    /\ "heartbeat" \in tasks.alive
    /\ connection_status' = [midi |-> midi_connected]
    /\ events' = ConnectionLost(connection_status, midi_connected)
                 \o (IF raised THEN <<>> ELSE <<"heartbeat">>)
    /\ tasks' = IF raised THEN TaskRaised("heartbeat") ELSE tasks
    /\ midi_sent' = <<>>
    /\ result' = None
    /\ dispatched' = None
    /\ call' = None
    /\ UNCHANGED <<state, running, midi_enabled, midi_connected, engine_timing,
                   pending_note_offs, active_notes, command_source, queued, connections,
                   destinations_loaded, message_scheduler, destination_router,
                   delivered, state_sink, step_suspended, tempo_changed>>

\* One iteration of LoopEngine._command_loop in which process_commands
\* raises: the error is caught and logged (lines 874-880)
CommandLoopError ==
    /\ running
    /\ "command" \in tasks.alive
    /\ midi_sent' = <<>>
    /\ events' = <<>>
    /\ result' = None
    /\ dispatched' = None
    /\ call' = None
    /\ UNCHANGED <<state, running, midi_enabled, midi_connected, engine_timing,
                   pending_note_offs, active_notes, command_source, queued, lifecycle,
                   tempo_changed>>

\* A loop of run() finds the running flag false at the top of an iteration
\* and returns
LoopExit(loop) ==
    /\ ~running
    /\ loop \in tasks.alive
    /\ tasks' = TaskReturned(loop)
    /\ midi_sent' = <<>>
    /\ events' = <<>>
    /\ result' = None
    /\ dispatched' = None
    /\ call' = None
    /\ UNCHANGED <<state, running, midi_enabled, midi_connected, engine_timing,
                   pending_note_offs, active_notes, command_source, queued, connections,
                   destinations_loaded, connection_status, message_scheduler, destination_router,
                   delivered, state_sink, step_suspended,
                   tempo_changed>>

\* LoopEngine.stop: clear the running flag, stop the playback, disconnect
\* the outputs (the MIDI output sends all-notes-off when it closes), the
\* command source and the telemetry sink
Stop ==
    LET e == StopEffect(state, midi_enabled, midi_connected,
                        step_anchor_time, step_count, pending_note_offs)
    IN /\ running' = RunningAfterStop
       /\ state' = e.state
       /\ midi_sent' = e.midi \o (IF midi_connected THEN <<"all_notes_off">>
                                  ELSE <<>>)
       /\ events' = e.events
       /\ step_anchor_time' = e.anchor
       /\ step_count' = e.count
       /\ pending_note_offs' = e.notes
       /\ active_notes' = AllNotesOff(active_notes, midi_connected)
       /\ midi_connected' = FALSE
       /\ commands_connected' = FALSE
       /\ result' = None
       /\ dispatched' = None
       /\ call' = None
       /\ UNCHANGED <<midi_enabled, suppress_next_drift_reset, drift_stats,
                      clock_generator, step_clock, inbox, next_seq,
                      last_handled, queued, lifecycle, tempo_changed>>

\* ---------------------------------------------------------------------
\* mute, solo, scene, session
\* ---------------------------------------------------------------------

\* MuteCommand(**payload), SoloCommand(**payload): track_id is required
TrackCommandValid(payload) == "track_id" \in DOMAIN payload

\* RuntimeState.set_track_mute, set_track_solo: whether the track is found
TrackFound(rs, track_id) == track_id \in DOMAIN Effective(rs).tracks

\* RuntimeState.get_active_tracks: the ids of the tracks that sound
GetActiveTracks(rs) ==
    LET tracks == Effective(rs).tracks
        has_solo == \E t \in DOMAIN tracks : tracks[t].solo
    IN IF has_solo THEN {t \in DOMAIN tracks : tracks[t].solo}
       ELSE {t \in DOMAIN tracks : ~tracks[t].mute}

\* set_track_mute that builds the TrackMeta without the solo flag
SetTrackMuteDropsSolo(rs, track_id, mute) ==
    LET rs1 == GetEffective(rs)
    IN IF ~TrackFound(rs, track_id) THEN rs1
       ELSE ApplyOverride(rs1,
                [DefaultSession EXCEPT !.tracks =
                    track_id :> [Effective(rs).tracks[track_id] EXCEPT
                                    !.mute = mute, !.solo = FALSE]])

\* RuntimeState.set_track_mute: an unknown track only fills the cache
SetTrackMute(rs, track_id, mute) ==
    LET rs1 == GetEffective(rs)
    IN IF ~TrackFound(rs, track_id) THEN rs1
       ELSE ApplyOverride(rs1,
                [DefaultSession EXCEPT !.tracks =
                    track_id :> [Effective(rs).tracks[track_id] EXCEPT
                                    !.mute = mute]])

\* RuntimeState.set_track_solo
SetTrackSolo(rs, track_id, solo) ==
    LET rs1 == GetEffective(rs)
    IN IF ~TrackFound(rs, track_id) THEN rs1
       ELSE ApplyOverride(rs1,
                [DefaultSession EXCEPT !.tracks =
                    track_id :> [Effective(rs).tracks[track_id] EXCEPT
                                    !.solo = solo]])

\* The frame of _handle_mute, _handle_solo, _handle_scene: only the
\* RuntimeState and the scheduled updates are touched
TrackCommandFrame ==
    /\ midi_sent' = <<>>
    /\ dispatched' = None
    /\ UNCHANGED lifecycle
    /\ queued' = queued
    /\ tempo_changed' = tempo_changed
    /\ UNCHANGED <<running, midi_enabled, midi_connected, engine_timing,
                   pending_note_offs, active_notes>>

\* LoopEngine._handle_mute: mute defaults to True
DoMute(payload) ==
    LET mute == IF "mute" \in DOMAIN payload THEN payload.mute ELSE TRUE
    IN /\ call' = Called("mute", payload, state)
       /\ state' = IF TrackCommandValid(payload)
                   THEN SetTrackMute(state, payload.track_id, mute)
                   ELSE state
       /\ events' = <<>>
       /\ result' = IF ~TrackCommandValid(payload)
                    THEN Error("Invalid mute command")
                    ELSE IF TrackFound(state, payload.track_id) THEN Ok("")
                    ELSE Error("Track not found")
       /\ TrackCommandFrame

\* LoopEngine._handle_solo: solo defaults to True
DoSolo(payload) ==
    LET solo == IF "solo" \in DOMAIN payload THEN payload.solo ELSE TRUE
    IN /\ call' = Called("solo", payload, state)
       /\ state' = IF TrackCommandValid(payload)
                   THEN SetTrackSolo(state, payload.track_id, solo)
                   ELSE state
       /\ events' = <<>>
       /\ result' = IF ~TrackCommandValid(payload)
                    THEN Error("Invalid solo command")
                    ELSE IF TrackFound(state, payload.track_id) THEN Ok("")
                    ELSE Error("Track not found")
       /\ TrackCommandFrame

\* SceneCommand(**payload): name is required
SceneCommandValid(payload) == "name" \in DOMAIN payload

\* RuntimeState.apply_scene: whether the scene is found
SceneFound(rs, name) == name \in DOMAIN Effective(rs).scenes

\* LoopEngine._handle_scene
DoScene(payload) ==
    LET activated == SceneCommandValid(payload) /\ SceneFound(state, payload.name)
    IN /\ call' = Called("scene", payload, state)
       /\ state' = IF SceneCommandValid(payload)
                   THEN ApplyScene(state, payload.name)
                   ELSE state
       /\ events' = IF activated THEN <<"status", "tracks">> ELSE <<>>
       /\ result' = IF ~SceneCommandValid(payload)
                    THEN Error("Invalid scene command")
                    ELSE IF activated THEN Ok("")
                    ELSE Error("Scene not found")
       /\ TrackCommandFrame

\* ScheduledMessageBatch.from_dict raises unless messages is present and
\* each message has its four keys
SessionBatchValid(payload) ==
    /\ "messages" \in DOMAIN payload
    /\ \A i \in DOMAIN payload.messages :
          {"destination_id", "cycle", "step", "params"}
              \subseteq DOMAIN payload.messages[i]

\* ScheduledMessageBatch.from_dict: bpm defaults to 120, pattern_length to 4
BatchFromDict(payload) ==
    [messages |-> payload.messages,
     bpm |-> IF "bpm" \in DOMAIN payload THEN payload.bpm ELSE DEFAULT_BPM,
     pattern_length |->
        IF "pattern_length" \in DOMAIN payload
        THEN payload.pattern_length ELSE 4]

\* _handle_session that loads a valid batch without looking at the
\* destination configuration
SessionLoadsUnchecked(loaded, payload) == SessionBatchValid(payload)

\* LoopEngine._handle_session lines 364-382: load_messages is reached
\* only with the destinations loaded and a batch that parses
SessionLoads(loaded, payload) == loaded /\ SessionBatchValid(payload)

\* LoopEngine._handle_session: after load_messages the handler assigns
\* self.state.bpm, a property of RuntimeState without a setter, which
\* raises AttributeError before the status update and the return
DoSession(payload) ==
    /\ call' = Called("session", payload, state)
    /\ message_scheduler' =
          IF SessionLoads(destinations_loaded, payload)
          THEN LoadMessages(message_scheduler, BatchFromDict(payload))
          ELSE message_scheduler
    /\ result' = IF ~destinations_loaded
                 THEN Error("Destination configuration not loaded")
                 ELSE IF ~SessionBatchValid(payload)
                 THEN Error("Invalid session payload")
                 ELSE Raised("AttributeError")
    /\ events' = <<>>
    /\ midi_sent' = <<>>
    /\ dispatched' = None
    /\ queued' = queued
    /\ tempo_changed' = tempo_changed
    /\ UNCHANGED <<tasks, connections, destinations_loaded, connection_status,
                   destination_router, delivered, state_sink, step_suspended>>
    /\ UNCHANGED <<state, running, midi_enabled, midi_connected,
                   engine_timing, pending_note_offs, active_notes>>


\* ---------------------------------------------------------------------
\* Direct calls of the handlers (public API methods, API routes)
\* ---------------------------------------------------------------------
HandlePlay == DoPlay /\ UNCHANGED command_source
HandleStop == DoStop /\ UNCHANGED command_source
HandlePause == DoPause /\ UNCHANGED command_source
HandlePanic == DoPanic /\ UNCHANGED command_source
HandleMidiPort(port_opens) == DoMidiPort(port_opens) /\ UNCHANGED command_source
HandleCompile(payload) == DoCompile(payload) /\ UNCHANGED command_source
HandleMute(payload) == DoMute(payload) /\ UNCHANGED command_source
HandleSolo(payload) == DoSolo(payload) /\ UNCHANGED command_source
HandleScene(payload) == DoScene(payload) /\ UNCHANGED command_source
HandleSession(payload) == DoSession(payload) /\ UNCHANGED command_source

\* ---------------------------------------------------------------------
\* Command source and command loop
\* ---------------------------------------------------------------------
TransportCommands == {"play", "stop", "pause", "panic"}

\* A client publishes a command; the source numbers it in receive order
Publish(command_type) ==
    /\ commands_connected
    /\ Len(inbox) < MaxInbox
    /\ next_seq < MaxHandled
    /\ next_seq' = next_seq + 1
    /\ inbox' = Append(inbox, [seq |-> next_seq + 1, type |-> command_type])
    /\ midi_sent' = <<>>
    /\ events' = <<>>
    /\ result' = None
    /\ dispatched' = None
    /\ call' = None
    /\ UNCHANGED lifecycle
    /\ UNCHANGED <<state, running, midi_enabled, midi_connected, engine_timing,
                   pending_note_offs, active_notes, commands_connected, last_handled, queued,
                   tempo_changed>>

\* receive taking the newest waiting command
ReceiveNewest(queue) ==
    [command |-> queue[Len(queue)], rest |-> SubSeq(queue, 1, Len(queue) - 1)]

\* CommandReceiver.receive: the oldest waiting command, and what stays queued
Receive(queue) == [command |-> Head(queue), rest |-> Tail(queue)]

\* CommandReceiver.process_commands, one turn of its loop, run by
\* LoopEngine._command_loop: receive a command and call its handler
ProcessCommands ==
    /\ running
    /\ "command" \in tasks.alive
    /\ commands_connected
    /\ inbox # <<>>
    /\ LET r == Receive(inbox)
       IN /\ inbox' = r.rest
          /\ last_handled' = r.command.seq
          /\ next_seq' = next_seq
          /\ commands_connected' = commands_connected
          /\ \/ r.command.type = "play" /\ DoPlay
             \/ r.command.type = "stop" /\ DoStop
             \/ r.command.type = "pause" /\ DoPause
             \/ r.command.type = "panic" /\ DoPanic

\* ---------------------------------------------------------------------
\* Inputs
\* ---------------------------------------------------------------------
DriftSamples == {0, 60}
StepNotes == {<<>>, <<[channel |-> 0, note |-> 60]>>}

PayloadA ==
    [environment |-> [bpm |-> 140],
     tracks |-> [kick |-> [s |-> "super808"], hihat |-> [s |-> "hh"]],
     sequences |-> [kick |-> {0}, hihat |-> {2}]]

PayloadB ==
    [environment |-> EmptyDict,
     tracks |-> [kick |-> [s |-> "bd"]],
     sequences |-> [kick |-> {4}]]

WithApply(payload, timing, track_ids) ==
    [apply |-> [timing |-> timing, track_ids |-> track_ids]] @@ payload

CompileInputs ==
    {PayloadA,
     WithApply(PayloadA, "now", {"kick"}),
     WithApply(PayloadB, "beat", {})}

SeqInputs ==
    {WithApply(PayloadA, "bar", {"kick"}),
     WithApply(PayloadB, "seq", {})}

\* A session whose kick track has no sequence
PayloadC ==
    [environment |-> EmptyDict,
     tracks |-> [kick |-> [s |-> "cp"]],
     sequences |-> EmptyDict]

PartialInputs ==
    {PayloadA,
     WithApply(PayloadB, "now", {"kick"}),
     WithApply(PayloadB, "bar", {"kick"}),
     WithApply(PayloadC, "bar", {"kick"}),
     WithApply(PayloadA, "bar", {"hihat"})}

\* ---------------------------------------------------------------------
\* Specifications
\* ---------------------------------------------------------------------

\* Transport: handlers called directly, with the step and note-off loops
NextTransport ==
    \/ \E a \in BOOLEAN : Start(a)
    \/ Run
    \/ HandlePlay
    \/ HandleStop
    \/ HandlePause
    \/ HandlePanic
    \/ \E o \in BOOLEAN : HandleMidiPort(o)
    \/ \E d \in DriftSamples, n \in StepNotes : StepLoop(d, n)
    \/ \E due \in SUBSET (1..MaxPendingNotes) : NoteOffLoop(due)

SpecTransport == Init /\ [][NextTransport]_vars

\* Command loop: transport commands through the command source
NextCommands ==
    \/ \E a \in BOOLEAN : Start(a)
    \/ Run
    \/ \E c \in TransportCommands : Publish(c)
    \/ ProcessCommands
    \/ StepLoop(0, <<>>)

SpecCommands == Init /\ [][NextCommands]_vars

\* Apply: compile and transport handlers with the step loop
NextApply ==
    \/ Run
    \/ \E p \in CompileInputs : HandleCompile(p)
    \/ HandlePlay
    \/ HandleStop
    \/ HandlePause
    \/ StepLoop(0, <<>>)

SpecApply == Init /\ [][NextApply]_vars

\* Seq: a whole-loop pending change against a bar-timed one
NextSeq ==
    \/ Run
    \/ \E p \in SeqInputs : HandleCompile(p)
    \/ HandlePlay
    \/ HandleStop
    \/ HandlePause
    \/ StepLoop(0, <<>>)

SpecSeq == Init /\ [][NextSeq]_vars

\* Partial: compiles that name tracks, applied at once or on the bar
NextPartial ==
    \/ Run
    \/ \E p \in PartialInputs : HandleCompile(p)
    \/ HandlePlay
    \/ HandleStop
    \/ StepLoop(0, <<>>)

SpecPartial == Init /\ [][NextPartial]_vars

\* The step loop with its clock: transport and bpm commands between
\* iterations that wake on time or late
SleepLateness == {0, 60000}
BpmInputs == {[bpm |-> 60], [bpm |-> 0], EmptyDict}
HandleBpmAt(payload, at) == DoBpmAt(payload, at) /\ UNCHANGED command_source
NextDrift ==
    \/ Run
    \/ HandlePlay
    \/ HandleStop
    \/ HandlePause
    \/ \E payload \in BpmInputs,
          at \in {step_clock.current_time, step_clock.wake_time} :
            HandleBpmAt(payload, at)
    \/ \E lateness \in SleepLateness : StepLoopAt(lateness, FALSE)
SpecDrift == Init /\ [][NextDrift]_vars

\* The compile command of the tempo runs: a BPM change queued for the beat
TempoCompileInputs == {WithApply(PayloadA, "beat", {})}

\* BPM changes while the step loop runs with its clock: by a bpm command
\* and by a compile applied on the next beat
NextTempo ==
    \/ Run
    \/ HandlePlay
    \/ HandlePause
    \/ \E at \in {step_clock.current_time, step_clock.wake_time} :
            HandleBpmAt([bpm |-> 60], at)
    \/ \E payload \in TempoCompileInputs : HandleCompile(payload)
    \/ \E lateness \in SleepLateness : StepLoopAt(lateness, FALSE)
SpecTempo == Init /\ [][NextTempo]_vars

\* The five loops of run() with collaborators that may raise
NextLoops ==
    \/ \E a \in BOOLEAN : Start(a)
    \/ Run
    \/ HandlePlay
    \/ HandleStop
    \/ \E raised \in BOOLEAN : StepLoopAt(0, raised)
    \/ \E raised \in BOOLEAN : NoteOffIteration({}, raised)
    \/ \E raised \in BOOLEAN : ClockLoop(0, raised)
    \/ \E raised \in BOOLEAN : HeartbeatLoop(raised)
    \/ CommandLoopError
SpecLoops == Init /\ [][NextLoops]_vars

\* run() and stop(): every loop that sleeps wakes up again
NextStop ==
    \/ \E a \in BOOLEAN : Start(a)
    \/ Run
    \/ HandlePlay
    \/ Stop
    \/ StepLoop(0, <<>>)
    \/ NoteOffLoop({})
    \/ ClockLoop(0, FALSE)
    \/ HeartbeatLoop(FALSE)
    \/ \E loop \in Loops : LoopExit(loop)
SpecStop ==
    /\ Init
    /\ [][NextStop]_vars
    /\ \A loop \in Loops : WF_vars(LoopExit(loop))

Spec == SpecTransport

\* ---------------------------------------------------------------------
\* Properties of the transport handlers (SpecTransport)
\* ---------------------------------------------------------------------

\* The step taken called the handler h
Handled(h) == call' # None /\ The(call').handler = h

\* The last action called the handler h in playback state prior
WasHandled(h, prior) ==
    call # None /\ The(call).handler = h /\ The(call).prior = prior

Sent(messages) == {messages[i] : i \in DOMAIN messages}

TransportMessages == {"start", "continue", "stop"}

\* The MIDI output takes messages: MIDI is enabled and the port is open
MidiOut == midi_enabled /\ midi_connected

\* C1 as stated: play from Stopped sets Playing at step 0 and emits MIDI
\* Start; play from Paused sets Playing, keeps the position and emits MIDI
\* Continue and never Start.
C1_AsStated ==
    [][Handled("play") =>
         /\ state.playback_state = STOPPED =>
              /\ state'.playback_state = PLAYING
              /\ state'.position.step = 0
              /\ "start" \in Sent(midi_sent')
         /\ state.playback_state = PAUSED =>
              /\ state'.playback_state = PLAYING
              /\ state'.position = state.position
              /\ "continue" \in Sent(midi_sent')
              /\ "start" \notin Sent(midi_sent')]_vars

\* C1 amended: play from Stopped sets Playing at step 0, play from Paused
\* sets Playing and keeps the position; the only MIDI message is Start
\* (from Stopped) or Continue (from Paused), and it is sent exactly when
\* MIDI is enabled and the port is open.
C1_Play ==
    [][Handled("play") =>
         /\ state.playback_state = STOPPED =>
              /\ state'.playback_state = PLAYING
              /\ state'.position.step = 0
              /\ midi_sent' = IF MidiOut THEN <<"start">> ELSE <<>>
         /\ state.playback_state = PAUSED =>
              /\ state'.playback_state = PLAYING
              /\ state'.position = state.position
              /\ midi_sent' = IF MidiOut THEN <<"continue">> ELSE <<>>]_vars

\* play has resumed from Paused in the middle of the loop, with Continue
C1_Witness ==
    /\ WasHandled("play", PAUSED)
    /\ state.playback_state = PLAYING
    /\ state.position.step > 0
    /\ midi_sent = <<"continue">>

\* C2 as stated: pause while Playing sets Paused, keeps the position, emits
\* MIDI Stop, empties the note-off queue and clears the step-loop anchor.
C2_AsStated ==
    [][(Handled("pause") /\ state.playback_state = PLAYING) =>
         /\ state'.playback_state = PAUSED
         /\ state'.position = state.position
         /\ "stop" \in Sent(midi_sent')
         /\ pending_note_offs' = <<>>
         /\ step_anchor_time' = None]_vars

\* C2 amended: pause while Playing sets Paused, keeps the position, empties
\* the note-off queue (with all-notes-off) and clears the step-loop anchor;
\* it emits MIDI Stop exactly when MIDI is enabled and the port is open.
C2_Pause ==
    [][(Handled("pause") /\ state.playback_state = PLAYING) =>
         /\ state'.playback_state = PAUSED
         /\ state'.position = state.position
         /\ midi_sent' = <<"all_notes_off">> \o
                         (IF MidiOut THEN <<"stop">> ELSE <<>>)
         /\ pending_note_offs' = <<>>
         /\ step_anchor_time' = None]_vars

\* pause has acted on a playing engine in the middle of the loop
C2_Witness ==
    /\ WasHandled("pause", PLAYING)
    /\ state.playback_state = PAUSED
    /\ state.position.step > 0
    /\ midi_sent = <<"all_notes_off", "stop">>
    /\ pending_note_offs = <<>>
    /\ step_anchor_time = None

\* C3 as stated: stop from Playing or Paused sets Stopped, resets the
\* position to 0/0/0, empties the note-off queue, resets the anchor and the
\* iteration counter, and emits MIDI Stop exactly when it was Playing.
C3_AsStated ==
    [][(Handled("stop") /\ state.playback_state \in {PLAYING, PAUSED}) =>
         /\ state'.playback_state = STOPPED
         /\ state'.position = [step |-> 0, beat |-> 0, bar |-> 0]
         /\ pending_note_offs' = <<>>
         /\ step_anchor_time' = None
         /\ step_count' = 0
         /\ "stop" \in Sent(midi_sent') <=> state.playback_state = PLAYING]_vars

\* C3 amended: as stated, with MIDI Stop emitted exactly when it was
\* Playing and MIDI is enabled and the port is open.
C3_Stop ==
    [][(Handled("stop") /\ state.playback_state \in {PLAYING, PAUSED}) =>
         /\ state'.playback_state = STOPPED
         /\ state'.position = [step |-> 0, beat |-> 0, bar |-> 0]
         /\ pending_note_offs' = <<>>
         /\ step_anchor_time' = None
         /\ step_count' = 0
         /\ "stop" \in Sent(midi_sent') <=>
                (state.playback_state = PLAYING /\ MidiOut)]_vars

\* stop has acted on a paused engine with MIDI: no MIDI Stop
C3_Witness ==
    /\ WasHandled("stop", PAUSED)
    /\ state.playback_state = STOPPED
    /\ state.position.step = 0
    /\ MidiOut
    /\ midi_sent = <<"all_notes_off">>

\* C4: panic in any playback state sets Stopped, resets the position to 0,
\* sends all-notes-off and empties the note-off queue.
C4_Panic ==
    [][Handled("panic") =>
         /\ state'.playback_state = STOPPED
         /\ state'.position = [step |-> 0, beat |-> 0, bar |-> 0]
         /\ "all_notes_off" \in Sent(midi_sent')
         /\ pending_note_offs' = <<>>]_vars

\* panic has acted on a playing engine
C4_Witness ==
    /\ WasHandled("panic", PLAYING)
    /\ state.playback_state = STOPPED
    /\ state.position.step = 0
    /\ "all_notes_off" \in Sent(midi_sent)
    /\ pending_note_offs = <<>>

\* C5: play while Playing, stop while Stopped and pause while not Playing
\* return success and change neither the playback state, the position, the
\* anchor, the iteration counter nor the note-off queue, and emit no MIDI
\* transport message.
C5_Frame ==
    [][(\/ Handled("play") /\ state.playback_state = PLAYING
        \/ Handled("stop") /\ state.playback_state = STOPPED
        \/ Handled("pause") /\ state.playback_state # PLAYING) =>
         /\ result' # None /\ The(result').success
         /\ state' = state
         /\ step_anchor_time' = step_anchor_time
         /\ step_count' = step_count
         /\ pending_note_offs' = pending_note_offs
         /\ Sent(midi_sent') \cap TransportMessages = {}]_vars

\* pause has been called on a paused engine in the middle of the loop
C5_Witness ==
    /\ WasHandled("pause", PAUSED)
    /\ result = Ok("Not playing")
    /\ state.playback_state = PAUSED
    /\ state.position.step > 0

\* ---------------------------------------------------------------------
\* Properties of the command loop (SpecCommands)
\* ---------------------------------------------------------------------

\* What every task finds between two steps: a stopped engine is at step 0
\* with no anchor and no counted iteration, a paused one has no anchor
TransportSettled ==
    /\ state.playback_state = STOPPED =>
          /\ state.position = [step |-> 0, beat |-> 0, bar |-> 0]
          /\ step_anchor_time = None
          /\ step_count = 0
          /\ pending_note_offs = <<>>
    /\ state.playback_state = PAUSED =>
          /\ step_anchor_time = None
          /\ pending_note_offs = <<>>

\* What the handler of a command leaves when it has run to its end
HandlerDone(command_type) ==
    CASE command_type = "play" -> state'.playback_state = PLAYING
      [] command_type = "pause" ->
            /\ state'.playback_state # PLAYING
            /\ step_anchor_time' = None
      [] OTHER ->
            /\ state'.playback_state = STOPPED
            /\ state'.position.step = 0
            /\ step_anchor_time' = None
            /\ step_count' = 0

\* C6: commands are handled in the order received, one per turn, and the
\* handler of each has run to its end (RuntimeState and the loop timing are
\* as the command leaves them) before the next is taken; no state between
\* two steps shows a half-applied command.
C6_CommandOrder ==
    /\ [][last_handled' # last_handled =>
            /\ inbox # <<>>
            /\ Head(inbox).seq = last_handled + 1
            /\ last_handled' = last_handled + 1
            /\ inbox' = Tail(inbox)
            /\ Handled(Head(inbox).type)
            /\ HandlerDone(Head(inbox).type)]_vars
    /\ []TransportSettled

\* two commands have been handled, a third waits behind the pause
C6_Witness ==
    /\ last_handled >= 2
    /\ WasHandled("pause", PLAYING)
    /\ state.playback_state = PAUSED
    /\ inbox # <<>>

\* ---------------------------------------------------------------------
\* Properties of compile and the pending apply (SpecApply, SpecSeq)
\* ---------------------------------------------------------------------

\* apply.timing and apply.track_ids as the payload gives them
PayloadTiming(payload) ==
    IF "apply" \in DOMAIN payload THEN payload.apply.timing ELSE "bar"

PayloadTrackIds(payload) ==
    IF "apply" \in DOMAIN payload THEN payload.apply.track_ids ELSE {}

\* The session is the payload's: its BPM (120 when it names none), its
\* tracks, and its sequences, emptied for the tracks outside a non-empty ids
SessionIsPayload(session, payload, ids) ==
    LET bpm == IF "bpm" \in DOMAIN payload.environment
               THEN payload.environment.bpm ELSE 120
    IN /\ session.environment.bpm = bpm
       /\ DOMAIN session.tracks = DOMAIN payload.tracks
       /\ \A t \in DOMAIN payload.tracks :
             session.tracks[t].s = payload.tracks[t].s
       /\ DOMAIN session.sequences = DOMAIN payload.sequences
       /\ \A t \in DOMAIN payload.sequences :
             session.sequences[t] =
                 IF ids = {} \/ t \in ids THEN payload.sequences[t] ELSE {}

\* C7: a compile received while not Playing, or with apply.timing = now, is
\* applied at once (the effective session is the payload's, and the step
\* duration follows its BPM) and is not queued; a compile received while
\* Playing with another timing (bar when apply is absent) becomes the
\* pending apply and leaves the effective session as it was.
C7_Compile ==
    [][Handled("compile") =>
         LET payload == The(call').payload
             timing == PayloadTiming(payload)
         IN IF state.playback_state # PLAYING \/ timing = "now"
            THEN /\ SessionIsPayload(Effective(state'), payload,
                                     PayloadTrackIds(payload))
                 /\ state'.step_duration =
                       15000000 \div Effective(state').environment.bpm
                 /\ state'.pending = state.pending
            ELSE /\ state'.pending # None
                 /\ The(state'.pending).timing = timing
                 /\ The(state'.pending).track_ids = PayloadTrackIds(payload)
                 /\ SessionIsPayload(The(state'.pending).session, payload, {})
                 /\ Effective(state') = Effective(state)
                 /\ state'.step_duration = state.step_duration]_vars

\* a compile with timing now has been applied while Playing, in the middle
\* of the loop
C7_Witness ==
    /\ WasHandled("compile", PLAYING)
    /\ The(call).payload = WithApply(PayloadA, "now", {"kick"})
    /\ state.playback_state = PLAYING
    /\ state.position.step > 0
    /\ Effective(state).environment.bpm = 140
    /\ Effective(state).sequences["hihat"] = {}

\* The pending apply is timed on the bar or on the beat
BoundaryPending ==
    state.pending # None /\ The(state.pending).timing \in {"bar", "beat"}

\* C8: while a bar-timed (beat-timed) apply is pending, no step other than
\* a step-loop iteration processing a step that is 0 mod 16 (0 mod 4)
\* changes the effective session, the step duration or the pending apply;
\* that iteration applies it (the whole session here, no track being
\* named) before it dispatches: the session it dispatches at that step is
\* the pending one, and the step duration follows its BPM.
C8_Boundary ==
    [][(BoundaryPending /\ ~Handled("compile")) =>
         LET p == The(state.pending)
             period == IF p.timing = "bar" THEN 16 ELSE 4
         IN IF dispatched' # None /\ state.position.step % period = 0
            THEN /\ state'.pending = None
                 /\ The(dispatched').step = state.position.step
                 /\ p.track_ids = {} =>
                       /\ The(dispatched').session = p.session
                       /\ Effective(state') = p.session
                 /\ state'.step_duration =
                       15000000 \div Effective(state').environment.bpm
                 /\ Effective(state').environment.bpm = p.session.environment.bpm
            ELSE /\ Effective(state') = Effective(state)
                 /\ state'.step_duration = state.step_duration
                 /\ state'.pending = state.pending]_vars

\* the bar-timed compile of PayloadA has been applied by the iteration of
\* step 16, which dispatched the new session
C8_Witness ==
    /\ dispatched = Some([step |-> 16, session |-> SessionFromDict(PayloadA)])
    /\ events = <<"tracks", "position", "tracks">>
    /\ state.pending = None
    /\ state.step_duration = 15000000 \div 140

\* C9: a seq-timed pending apply is executed only by a step-loop iteration
\* at step 0, and only when, since it was queued, an advance has produced a
\* step greater than 0; so one queued at step 0 is not applied at that
\* step 0.
C9_Seq ==
    [][(/\ state.pending # None
        /\ The(state.pending).timing = "seq"
        /\ state'.pending = None) =>
         /\ dispatched' # None
         /\ The(dispatched').step = 0
         /\ state.position.step = 0
         /\ queued # None
         /\ The(queued).advanced]_vars

\* the seq-timed compile of PayloadB has been applied by an iteration of
\* step 0
C9_Witness ==
    /\ dispatched = Some([step |-> 0,
                          session |-> SessionFromDict(WithApply(PayloadB, "seq", {}))])
    /\ events = <<"tracks", "position", "tracks">>
    /\ state.pending = None

\* The pending apply is the compile queued last
PendingIsQueued ==
    state.pending # None =>
        /\ queued # None
        /\ The(state.pending).timing = The(queued).timing
        /\ The(state.pending).session = The(queued).session
        /\ The(state.pending).track_ids = The(queued).track_ids

\* C10: there is one pending apply at most; a compile queued while another
\* is pending replaces it whole (session, timing, track_ids, and
\* passed_non_zero false again), and what the step loop executes is the
\* compile queued last, so a replaced one is never applied.
C10_OnePending ==
    /\ []PendingIsQueued
    /\ [][(/\ Handled("compile")
           /\ state.playback_state = PLAYING
           /\ PayloadTiming(The(call').payload) # "now") =>
            LET payload == The(call').payload
            IN state'.pending =
                  Some([timing |-> PayloadTiming(payload),
                        session |-> SessionFromDict(payload),
                        track_ids |-> PayloadTrackIds(payload),
                        scene_name |-> None,
                        passed_non_zero |-> FALSE])]_vars
    /\ [][(state.pending # None /\ state'.pending = None) =>
            /\ dispatched' # None
            /\ The(queued).track_ids = {} =>
                  The(dispatched').session = The(queued).session]_vars

\* a seq-timed compile has replaced a pending apply in the middle of the
\* loop
C10_Witness ==
    /\ WasHandled("compile", PLAYING)
    /\ queued # None
    /\ The(queued).replaced
    /\ state.pending # None
    /\ The(state.pending).timing = "seq"
    /\ ~The(state.pending).passed_non_zero
    /\ state.position.step > 0


\* ---------------------------------------------------------------------
\* Properties of the exclusive apply (SpecPartial)
\* ---------------------------------------------------------------------

\* The events the session holds for a track: none when it has no sequence
EventsOf(session, t) ==
    IF t \in DOMAIN session.sequences THEN session.sequences[t] ELSE {}

\* A step-loop iteration executes a pending apply that names tracks
PartialExecuted ==
    /\ state.pending # None
    /\ The(state.pending).track_ids # {}
    /\ state'.pending = None
    /\ dispatched' # None

\* Each track the pending apply does not name keeps its definition and has
\* no events afterwards
OthersKeptAndCleared ==
    LET p == The(state.pending)
        before == Effective(state)
        after == Effective(state')
    IN \A t \in DOMAIN before.tracks \ p.track_ids :
          /\ t \in DOMAIN after.tracks
          /\ after.tracks[t] = before.tracks[t]
          /\ EventsOf(after, t) = {}

\* C11 as stated: when a pending apply that names tracks is executed, each
\* track it does not name has an empty sequence and the definition it had
\* before, and each named track carries the events of the new session.
C11_AsStated ==
    [][PartialExecuted =>
         /\ OthersKeptAndCleared
         /\ \A t \in The(state.pending).track_ids :
               EventsOf(Effective(state'), t)
                   = EventsOf(The(state.pending).session, t)]_vars

\* C11, the part that holds: when a pending apply that names tracks is
\* executed, each track it does not name has an empty sequence and the
\* definition it had before, and each named track for which the new session
\* has a sequence carries that sequence.
C11_Exclusive ==
    [][PartialExecuted =>
         /\ OthersKeptAndCleared
         /\ \A t \in The(state.pending).track_ids
                     \cap DOMAIN The(state.pending).session.sequences :
               EventsOf(Effective(state'), t)
                   = The(state.pending).session.sequences[t]]_vars

\* the bar-timed compile of PayloadB naming kick has been executed over
\* PayloadA: hihat is still defined and has no events
C11_Witness ==
    /\ dispatched # None
    /\ events = <<"tracks", "position", "tracks">>
    /\ state.pending = None
    /\ DOMAIN Effective(state).tracks = {"kick", "hihat"}
    /\ DOMAIN Effective(state).sequences = {"kick", "hihat"}
    /\ Effective(state).tracks["kick"].s = "bd"
    /\ Effective(state).sequences["kick"] = {4}
    /\ Effective(state).tracks["hihat"].s = "hh"
    /\ Effective(state).sequences["hihat"] = {}

\* C12 as stated: a compile with apply = {timing: now, track_ids: [kick]}
\* applied at once to a state holding kick and hihat replaces the events of
\* kick, leaves the definition of hihat as it was and leaves hihat with an
\* empty sequence.
C12_AsStated ==
    [][(/\ Handled("compile")
        /\ PayloadTiming(The(call').payload) = "now"
        /\ PayloadTrackIds(The(call').payload) = {"kick"}
        /\ {"kick", "hihat"} \subseteq DOMAIN Effective(state).tracks) =>
         /\ EventsOf(Effective(state'), "kick")
               = EventsOf(SessionFromDict(The(call').payload), "kick")
         /\ "hihat" \in DOMAIN Effective(state').tracks
         /\ Effective(state').tracks["hihat"] = Effective(state).tracks["hihat"]
         /\ EventsOf(Effective(state'), "hihat") = {}]_vars


\* ---------------------------------------------------------------------
\* C13: a step-loop iteration that reads the clock at t with a drift of
\* more than 50 ms sets the anchor to t and the iteration counter to 1 and
\* sleeps step_duration, so the next expected time is t + step_duration;
\* and the iteration that wakes on time after it has no drift beyond the
\* threshold: it takes no reset, counts none and reports none.
\* ---------------------------------------------------------------------
\* An iteration of the step loop runs while Playing: it reads the clock
StepRuns ==
    /\ running
    /\ Playing(state)
    /\ call' = None
    /\ step_clock' # step_clock

\* The state a drift reset at the last clock reading leaves: the loop
\* sleeps step_duration
AfterReset ==
    /\ Playing(state)
    /\ step_anchor_time # None
    /\ step_count = 1
    /\ step_clock.anchor_time = step_clock.current_time
    /\ step_clock.wake_time = step_clock.current_time + state.step_duration

C13_ResetAnchor ==
    [][LET t == step_clock'.current_time
       IN /\ (StepRuns /\ Abs(DriftAt(t)) > DRIFT_RESET_THRESHOLD_MS * 1000)
               => /\ step_anchor_time' # None
                  /\ step_clock'.anchor_time = t
                  /\ step_count' = 1
                  /\ step_clock'.anchor_time + step_count' * state'.step_duration
                        = t + state.step_duration
                  /\ step_clock'.wake_time = t + state.step_duration
          /\ (StepRuns /\ AfterReset /\ t = step_clock.wake_time)
               => /\ Abs(DriftAt(t)) <= DRIFT_RESET_THRESHOLD_MS * 1000
                  /\ step_count' = 2
                  /\ drift_stats'.reset_count = drift_stats.reset_count
                  /\ events' # <<"CLOCK_DRIFT_RESET">>]_vars

\* A reset was taken and reported, and the loop sleeps one step
C13_Witness ==
    /\ AfterReset
    /\ events = <<"CLOCK_DRIFT_RESET">>
    /\ drift_stats.reset_count = 1


\* ---------------------------------------------------------------------
\* C14: after the BPM has changed while Playing, through a bpm command or
\* through a pending apply, the first drift reset the step loop takes
\* reports no CLOCK_DRIFT_RESET and leaves reset_count as it was.
\* ---------------------------------------------------------------------
DriftResets(t) == StepRuns /\ Abs(DriftAt(t)) > DRIFT_RESET_THRESHOLD_MS * 1000

ResetSuppressed ==
    /\ events' # <<"CLOCK_DRIFT_RESET">>
    /\ drift_stats'.reset_count = drift_stats.reset_count

C15_AsStated ==
    /\ tasks.run # "raised"
    /\ (running /\ tasks.run = "active")
          => (Loops \ {"clock"}) \subseteq tasks.alive

\* ---------------------------------------------------------------------
\* C16: when the step processing raises in an iteration of the step loop,
\* the error is caught (the loop and run() go on), STEP_ERROR is published,
\* and the position advances by exactly one step.
\* ---------------------------------------------------------------------
\* An iteration meets no drift reset and processes no step: the processing
\* raised
StepRaises ==
    /\ StepRuns
    /\ ~DriftResets(step_clock'.current_time)
    /\ dispatched' = None

C16_StepError ==
    [][StepRaises
          => /\ "STEP_ERROR" \in Sent(events')
             /\ state'.position.step = (state.position.step + 1) % LOOP_STEPS
             /\ state'.playback_state = state.playback_state
             /\ step_count' = step_count + 1
             /\ tasks' = tasks]_vars

\* A step error was published and the position has advanced
C16_Witness ==
    /\ "STEP_ERROR" \in Sent(events)
    /\ dispatched = None
    /\ state.position.step = 1
    /\ "step" \in tasks.alive
    /\ tasks.run = "active"

\* ---------------------------------------------------------------------
\* C17: stop() clears the running flag, and once it is cleared every loop
\* of the active run() returns, so that run() returns.
\* ---------------------------------------------------------------------
\* stop() is the action that disconnects the command source
StopCalled == commands_connected /\ ~commands_connected'

C17_StopReturns ==
    /\ [][StopCalled => (~running' /\ tasks' = tasks)]_vars
    /\ [][(~running /\ tasks.run = "active")
            => (~running' /\ tasks'.alive \subseteq tasks.alive)]_vars
    /\ (~running /\ tasks.run = "active") ~> (tasks.run = "returned")

\* run() has returned after stop()
C17_Witness ==
    /\ ~running
    /\ connections.commands > 0
    /\ ~commands_connected
    /\ tasks.run = "returned"
    /\ tasks.alive = {}


\* ---------------------------------------------------------------------
\* C18: a second start() is a no-op: the senders, the command source and
\* the telemetry sink are connected once, the handlers are registered once
\* and the destinations are loaded once, however often start() is called.
\* ---------------------------------------------------------------------
C18_AsStated ==
    /\ connections.osc <= 1
    /\ connections.midi <= 1
    /\ connections.commands <= 1
    /\ connections.publisher <= 1
    /\ connections.handlers <= 1
    /\ connections.destinations <= 1


\* ---------------------------------------------------------------------
\* Rejected commands: compile with scenes, malformed payloads, unknown
\* tracks and scenes, session with and without destinations
\* ---------------------------------------------------------------------
PayloadScenes ==
    [scenes |->
        [verse |-> [environment |-> [bpm |-> 90],
                    tracks |-> [kick |-> [s |-> "bd"]],
                    sequences |-> [kick |-> {4}]]]] @@ PayloadA

RejectCompileInputs ==
    {PayloadScenes,
     [tracks |-> NotADict],
     [apply |-> [track_ids |-> {"kick"}]] @@ PayloadA}

TrackInputs ==
    {[track_id |-> "kick"], [track_id |-> "snare"], EmptyDict}

SceneInputs == {[name |-> "verse"], [name |-> "chorus"], EmptyDict}

SessionInputs ==
    {[messages |-> <<[destination_id |-> "superdirt", cycle |-> 0,
                      step |-> 0, params |-> [s |-> "bd"]]>>,
      bpm |-> 90],
     [messages |-> <<[cycle |-> 0, step |-> 0]>>],
     [bpm |-> 90]}

NextReject ==
    \/ \E midi_available \in BOOLEAN, config_valid \in BOOLEAN :
          StartEngine(midi_available, config_valid)
    \/ HandlePlay
    \/ \E payload \in RejectCompileInputs : HandleCompile(payload)
    \/ \E payload \in TrackInputs : HandleMute(payload)
    \/ \E payload \in TrackInputs : HandleSolo(payload)
    \/ \E payload \in SceneInputs : HandleScene(payload)
    \/ \E payload \in SessionInputs : HandleSession(payload)
    \/ \E payload \in BpmInputs : HandleBpmAt(payload, step_clock.current_time)

SpecReject == Init /\ [][NextReject]_vars

\* C19 (as stated): every handler call ends by returning a success or an
\* error result; no call ends with an exception raised to the caller.
C19_AsStated == result # None => "success" \in DOMAIN The(result)

\* The handler called by the step returned an error result
Rejected ==
    /\ call' # None
    /\ result' # None
    /\ "success" \in DOMAIN The(result')
    /\ ~The(result').success

\* Two RuntimeStates with the same contents: every field but the memo of
\* get_effective is equal, and get_effective returns the same session
SameRuntimeState(a, b) ==
    /\ [a EXCEPT !.effective = None] = [b EXCEPT !.effective = None]
    /\ Effective(a) = Effective(b)

\* C20: a command rejected with an error (malformed payload, mute or solo
\* of an unknown track, unknown scene, session without destinations or
\* with a batch that does not parse) leaves the RuntimeState, the playback
\* state and the contents of the message scheduler as they were.
C20_Rejected ==
    [][Rejected =>
          /\ SameRuntimeState(state', state)
          /\ state'.playback_state = state.playback_state
          /\ message_scheduler' = message_scheduler]_vars

\* A mute of an unknown track was rejected with a session loaded
C20_Witness ==
    /\ call # None
    /\ The(call).handler = "mute"
    /\ result = Error("Track not found")
    /\ state.scene_state # None
    /\ state.live_overrides # None


\* ---------------------------------------------------------------------
\* C21 (as stated): with the destinations loaded, a session command that
\* carries a valid batch returns success, the scheduler then holds exactly
\* the messages of the batch, and the BPM of the engine is the batch's bpm.
\* ---------------------------------------------------------------------
C21_AsStated ==
    [][(Handled("session") /\ destinations_loaded
            /\ SessionBatchValid(The(call').payload))
          => LET batch == BatchFromDict(The(call').payload)
             IN /\ result' = Ok("")
                /\ message_scheduler' = LoadMessages(message_scheduler, batch)
                /\ Bpm(state') = batch.bpm]_vars


\* ---------------------------------------------------------------------
\* RuntimeState under the commands that change its layers: compile, scene,
\* bpm, mute, solo, and the pending apply of the step loop
\* ---------------------------------------------------------------------
StateCompileInputs == {PayloadScenes, WithApply(PayloadB, "bar", {})}

StateBpmInputs == {[bpm |-> 60], [bpm |-> 120], [bpm |-> 1500], [bpm |-> 0]}

MuteInputs ==
    {[track_id |-> t, mute |-> m] : t \in {"kick", "hihat"}, m \in BOOLEAN}
        \cup {[track_id |-> "kick"]}

SoloInputs ==
    {[track_id |-> t, solo |-> m] : t \in {"kick", "hihat"}, m \in BOOLEAN}
        \cup {[track_id |-> "hihat"]}

NextState ==
    \/ Run
    \/ HandlePlay
    \/ \E payload \in StateCompileInputs : HandleCompile(payload)
    \/ \E payload \in StateBpmInputs :
          HandleBpmAt(payload, step_clock.current_time)
    \/ HandleMute([track_id |-> "kick"])
    \/ HandleSolo([track_id |-> "hihat"])
    \/ HandleScene([name |-> "verse"])
    \/ (state.position.step < MaxStepCount /\ StepLoop(0, <<>>))

SpecState == Init /\ [][NextState]_vars

\* Mute and solo commands on the tracks of a loaded session
NextMix ==
    \/ HandleCompile(PayloadA)
    \/ HandlePlay
    \/ \E payload \in MuteInputs : HandleMute(payload)
    \/ \E payload \in SoloInputs : HandleSolo(payload)

SpecMix == Init /\ [][NextMix]_vars

\* The value set_bpm is documented to leave: min(999, max(1, b))
ClampedBpm(b) == IF b < 1 THEN 1 ELSE IF b > 999 THEN 999 ELSE b

\* C22 (as stated): after a successful bpm command with value b > 0 the
\* effective BPM is b clamped into 1..999, whatever session, scene or live
\* overrides are loaded.
C22_AsStated ==
    [][(Handled("bpm") /\ result' = Ok(""))
          => Bpm(state') = ClampedBpm(The(call').payload.bpm)]_vars


\* ---------------------------------------------------------------------
\* Timing: the commands that change the BPM, the pending apply, and the
\* clock loop
\* ---------------------------------------------------------------------
NextTiming ==
    \/ Start(TRUE)
    \/ Run
    \/ HandlePlay
    \/ \E payload \in StateCompileInputs : HandleCompile(payload)
    \/ \E payload \in {[bpm |-> 60], [bpm |-> 1500]} :
          HandleBpmAt(payload, step_clock.current_time)
    \/ HandleScene([name |-> "verse"])
    \/ (state.position.step < MaxStepCount /\ StepLoop(0, <<>>))
    \/ ClockLoop(0, FALSE)

SpecTiming == Init /\ [][NextTiming]_vars

\* An iteration of the clock loop that found the engine playing
ClockRuns ==
    /\ running
    /\ Playing(state)
    /\ call' = None
    /\ clock_generator' # clock_generator
    /\ state' = state

\* C23: in every state a handler or a pending apply leaves, step_duration
\* is 60 / bpm / 4 seconds for the effective BPM; and the pulse duration the
\* clock loop uses is that step_duration / 6.
C23_Timing ==
    /\ [](state.step_duration = (60000000 \div Bpm(state)) \div 4)
    /\ [][ClockRuns =>
             clock_generator'.pulse_duration =
                 ((60000000 \div Bpm(state)) \div 4) \div 6]_vars

\* A bpm command changed the tempo during playback and the clock loop has
\* computed its pulse from the new step duration
C23_Witness ==
    /\ Playing(state)
    /\ Bpm(state) = 60
    /\ state.step_duration = 250000
    /\ clock_generator.pulse_duration = 41666


\* ---------------------------------------------------------------------
\* C24: after any sequence of load_session, apply_override, apply_scene,
\* set_bpm, mute, solo and pending-apply operations the cached effective
\* session, if present, is deep_merge(scene_state, live_overrides); and a
\* second read with no mutation in between returns the cached session and
\* leaves the RuntimeState as the first read left it.
\* ---------------------------------------------------------------------

\* The merge of the two layers, computed from the layers alone
MergedLayers(rs) == Effective([rs EXCEPT !.effective = None])

C24_EffectiveCache ==
    /\ state.effective # None => The(state.effective) = MergedLayers(state)
    /\ LET first == GetEffective(state)
           second == GetEffective(first)
       IN /\ first.effective = Some(MergedLayers(state))
          /\ second = first

\* The cache is filled while both layers are present
C24_Witness ==
    /\ state.effective # None
    /\ state.scene_state # None
    /\ state.live_overrides # None
    /\ The(state.effective) # The(state.scene_state)


\* ---------------------------------------------------------------------
\* C25: after any sequence of mute and solo commands get_active_tracks()
\* returns exactly the soloed tracks if a track is soloed, and otherwise
\* exactly the tracks that are not muted.
\* ---------------------------------------------------------------------

\* The mute and solo flags the commands have set so far
TrackFlags(rs) ==
    [t \in DOMAIN Effective(rs).tracks |->
        [mute |-> Effective(rs).tracks[t].mute,
         solo |-> Effective(rs).tracks[t].solo]]

\* The tracks that sound under the given flags
SoundingUnder(flags) ==
    IF \E t \in DOMAIN flags : flags[t].solo
    THEN {t \in DOMAIN flags : flags[t].solo}
    ELSE {t \in DOMAIN flags : ~flags[t].mute}

C25_ActiveTracks ==
    [][/\ (Handled("mute") /\ result' = Ok(""))
            => LET payload == The(call').payload
                   mute == IF "mute" \in DOMAIN payload THEN payload.mute
                           ELSE TRUE
               IN GetActiveTracks(state') =
                     SoundingUnder([TrackFlags(state) EXCEPT
                                       ![payload.track_id].mute = mute])
       /\ (Handled("solo") /\ result' = Ok(""))
            => LET payload == The(call').payload
                   solo == IF "solo" \in DOMAIN payload THEN payload.solo
                           ELSE TRUE
               IN GetActiveTracks(state') =
                     SoundingUnder([TrackFlags(state) EXCEPT
                                       ![payload.track_id].solo = solo])
       /\ (call' # None /\ The(call').handler \notin {"mute", "solo", "compile"})
            => GetActiveTracks(state') = GetActiveTracks(state)]_vars

\* A muted track is soloed: it sounds, and the unmuted other track does not
C25_Witness ==
    /\ call # None
    /\ The(call).handler \in {"mute", "solo"}
    /\ {"kick", "hihat"} \subseteq DOMAIN Effective(state).tracks
    /\ Effective(state).tracks["kick"].mute
    /\ Effective(state).tracks["kick"].solo
    /\ ~Effective(state).tracks["hihat"].mute
    /\ GetActiveTracks(state) = {"kick"}


\* ---------------------------------------------------------------------
\* Calls on one component (RuntimeState, MessageScheduler,
\* DestinationRouter, InProcessStateSink) that leave the engine alone
\* ---------------------------------------------------------------------
EngineUntouched ==
    /\ midi_sent' = <<>>
    /\ events' = <<>>
    /\ dispatched' = None
    /\ call' = None
    /\ UNCHANGED <<running, midi_enabled, midi_connected, engine_timing,
                   pending_note_offs, active_notes, command_source, queued, tempo_changed,
                   tasks, connections, destinations_loaded,
                   connection_status>>

\* RuntimeState.advance_step, called as the step loop calls it
AdvanceStepCall ==
    /\ state' = AdvanceStep(state)
    /\ result' = None
    /\ EngineUntouched
    /\ UNCHANGED <<message_scheduler, destination_router, delivered,
                   state_sink, step_suspended>>

\* RuntimeState.reset_position, called as stop calls it
ResetPositionCall ==
    /\ state' = ResetPosition(state)
    /\ result' = None
    /\ EngineUntouched
    /\ UNCHANGED <<message_scheduler, destination_router, delivered,
                   state_sink, step_suspended>>

NextPosition ==
    \/ AdvanceStepCall
    \/ ResetPositionCall

SpecPosition == Init /\ [][NextPosition]_vars

\* C26: every reachable position has step in 0..255, beat in 0..3 and bar
\* in 0..15; advance_step yields step' = (step + 1) mod 256,
\* beat' = (step' div 4) mod 4, bar' = step' div 16, so step 255 wraps to 0.
C26_Position ==
    /\ [](/\ state.position.step \in 0..255
          /\ state.position.beat \in 0..3
          /\ state.position.bar \in 0..15)
    /\ [][state'.position # PositionReset(state.position)
             \/ state.position.step = 255
          => /\ state'.position.step = (state.position.step + 1) % 256
             /\ state'.position.beat = (state'.position.step \div 4) % 4
             /\ state'.position.bar = state'.position.step \div 16]_vars

\* The last step of the loop, from which the next advance wraps
C26_Witness == state.position = [step |-> 255, beat |-> 3, bar |-> 15]


\* ---------------------------------------------------------------------
\* MessageScheduler: batches loaded one after another, and lookups
\* ---------------------------------------------------------------------
MessageA ==
    [destination_id |-> "superdirt", cycle |-> 0, step |-> 0,
     params |-> [s |-> "bd"]]

MessageB ==
    [destination_id |-> "volca", cycle |-> 0, step |-> 0,
     params |-> [note |-> 36]]

MessageC ==
    [destination_id |-> "superdirt", cycle |-> 1, step |-> 16,
     params |-> [s |-> "sn"]]

MessageD ==
    [destination_id |-> "unknown", cycle |-> 0, step |-> 0,
     params |-> [s |-> "hh"]]

\* The message lists: up to MaxMessages messages, repetitions included
MessageLists ==
    UNION {[1..n -> {MessageA, MessageB, MessageC, MessageD}] :
              n \in 0..MaxMessages}

Batches ==
    {[messages |-> list, bpm |-> DEFAULT_BPM, pattern_length |-> 4] :
        list \in MessageLists}

LookupSteps == {0, 16, 32}

\* MessageScheduler.load_messages called with a batch
LoadMessagesCall(batch) ==
    /\ message_scheduler' = LoadMessages(message_scheduler, batch)
    /\ result' = Some([loaded |-> batch])
    /\ EngineUntouched
    /\ UNCHANGED <<state, destination_router, delivered, state_sink, step_suspended>>

\* MessageScheduler.get_messages_at_step called with a step
GetMessagesAtStepCall(step) ==
    /\ result' = Some([step |-> step,
                       returned |-> GetMessagesAtStep(message_scheduler, step)])
    /\ EngineUntouched
    /\ UNCHANGED <<state, message_scheduler, destination_router, delivered,
                   state_sink, step_suspended>>

\* MessageScheduler.clear
ClearCall ==
    /\ message_scheduler' = [message_scheduler EXCEPT
                                !.messages_by_step = EmptyDict]
    /\ result' = None
    /\ EngineUntouched
    /\ UNCHANGED <<state, destination_router, delivered, state_sink, step_suspended>>

NextScheduler ==
    \/ \E batch \in Batches : LoadMessagesCall(batch)
    \/ \E step \in LookupSteps : GetMessagesAtStepCall(step)
    \/ ClearCall

SpecScheduler == Init /\ [][NextScheduler]_vars

\* The messages of a list whose step is s, in the order of the list
AtStep(messages, s) == SelectSeq(messages, LAMBDA msg : msg.step = s)

\* C27: after load_messages(batch) the lookup at every step returns exactly
\* the messages of that batch with that step, in their order in the batch,
\* and nothing of an earlier batch; lookups change nothing.
C27_Lookup ==
    [][/\ (result' # None /\ "loaded" \in DOMAIN The(result'))
            => \A s \in 0..255 :
                  GetMessagesAtStep(message_scheduler', s) =
                      AtStep(The(result').loaded.messages, s)
       /\ (result' # None /\ "returned" \in DOMAIN The(result'))
            => /\ message_scheduler' = message_scheduler
               /\ The(result').returned =
                     GetMessagesAtStep(message_scheduler, The(result').step)]_vars

\* A second batch was loaded over a first one that had other messages at
\* step 0, and step 0 holds two messages of the second batch
C27_Witness ==
    /\ result # None
    /\ "loaded" \in DOMAIN The(result)
    /\ The(result).loaded.messages = <<MessageB, MessageA>>
    /\ GetMessagesAtStep(message_scheduler, 0) = <<MessageB, MessageA>>


\* ---------------------------------------------------------------------
\* DestinationRouter: registrations and sends
\* ---------------------------------------------------------------------

\* DestinationRouter.register_destination
RegisterDestinationCall(destination_id) ==
    /\ destination_router' = destination_router \cup {destination_id}
    /\ result' = None
    /\ EngineUntouched
    /\ UNCHANGED <<state, message_scheduler, delivered, state_sink, step_suspended>>

\* DestinationRouter.unregister_destination
UnregisterDestinationCall(destination_id) ==
    /\ destination_router' = destination_router \ {destination_id}
    /\ result' = None
    /\ EngineUntouched
    /\ UNCHANGED <<state, message_scheduler, delivered, state_sink, step_suspended>>

\* DestinationRouter.send_messages called with a list of messages
SendMessagesCall(messages) ==
    /\ delivered' = SendMessages(destination_router, messages)
    /\ result' = Some([sent |-> messages])
    /\ EngineUntouched
    /\ UNCHANGED <<state, message_scheduler, destination_router, state_sink, step_suspended>>

NextRouter ==
    \/ \E destination_id \in ConfiguredDestinations :
          \/ RegisterDestinationCall(destination_id)
          \/ UnregisterDestinationCall(destination_id)
    \/ \E messages \in MessageLists : SendMessagesCall(messages)

SpecRouter == Init /\ [][NextRouter]_vars

\* C28: send_messages hands every registered destination exactly the
\* params of the messages addressed to it, in their order in the list, and
\* nothing to a destination that is not registered, whatever else the list
\* holds.
C28_Delivery ==
    [][(result' # None /\ "sent" \in DOMAIN The(result'))
          => LET messages == The(result').sent
             IN /\ DOMAIN delivered' \subseteq destination_router
                /\ \A d \in destination_router :
                      LET mine == SelectSeq(messages,
                                      LAMBDA msg : msg.destination_id = d)
                      IN IF mine = <<>> THEN d \notin DOMAIN delivered'
                         ELSE /\ d \in DOMAIN delivered'
                              /\ delivered'[d] =
                                    [i \in 1..Len(mine) |-> mine[i].params]]_vars

\* A list that starts with a message to an unregistered destination was
\* sent, and the registered destination received its two messages in order
C28_Witness ==
    /\ result # None
    /\ "sent" \in DOMAIN The(result)
    /\ The(result).sent = <<MessageD, MessageC, MessageA>>
    /\ "superdirt" \in destination_router
    /\ "superdirt" \in DOMAIN delivered
    /\ delivered["superdirt"] = <<[s |-> "sn"], [s |-> "bd"]>>


\* ---------------------------------------------------------------------
\* InProcessStateSink: pushes by the engine and reads by the SSE stream
\* ---------------------------------------------------------------------

\* The events pushed: two positions, a status and a heartbeat
TelemetryPositions ==
    {[step |-> 0, beat |-> 0, bar |-> 0], [step |-> 1, beat |-> 0, bar |-> 0]}

\* Pushes are cut off when a queue that is not full already holds
\* MaxQueueSize events (only the queue of the default size gets there)
PushBounded ==
    Len(state_sink.queue) < MaxQueueSize \/ QueueFull(state_sink)

\* One call of _push by a send method
PushCall(event) ==
    /\ PushBounded
    /\ state_sink' = Push(state_sink, event)
    /\ result' = Some([pushed |-> event, overflow |-> QueueFull(state_sink)])
    /\ EngineUntouched
    /\ UNCHANGED <<state, message_scheduler, destination_router, delivered,
                   step_suspended>>

\* InProcessStateSink(maxsize)
NewStateSink(maxsize) ==
    /\ state_sink' = [maxsize |-> maxsize, queue |-> <<>>]
    /\ result' = None
    /\ EngineUntouched
    /\ UNCHANGED <<state, message_scheduler, destination_router, delivered,
                   step_suspended>>

\* send_position
SendPositionCall(position) ==
    PushCall([type |-> "position", data |-> position])

\* send_status
SendStatusCall(transport) ==
    PushCall([type |-> "status", data |-> [transport |-> transport]])

\* send: the generic method, used for the heartbeat
SendCall(event_type) ==
    PushCall([type |-> event_type, data |-> EmptyDict])

\* _event_stream: the consumer takes the oldest event off a non-empty queue
QueueGet ==
    /\ GetNowait(state_sink) # None
    /\ state_sink' = The(GetNowait(state_sink))
    /\ result' = Some([read |-> Head(state_sink.queue)])
    /\ EngineUntouched
    /\ UNCHANGED <<state, message_scheduler, destination_router, delivered,
                   step_suspended>>

NextTelemetry ==
    \/ \E maxsize \in 1..MaxQueueSize : NewStateSink(maxsize)
    \/ \E position \in TelemetryPositions : SendPositionCall(position)
    \/ SendStatusCall("playing")
    \/ SendCall("heartbeat")
    \/ QueueGet

SpecTelemetry == Init /\ [][NextTelemetry]_vars

\* C29: the queue never holds more events than its maxsize; a push onto a
\* full queue drops the oldest event and appends the new one, the events
\* between keeping their order; a push onto a queue that is not full only
\* appends; a read takes the oldest event.
C29_DropOldest ==
    /\ [](Len(state_sink.queue) <= state_sink.maxsize)
    /\ [][/\ (result' # None /\ "pushed" \in DOMAIN The(result'))
               => /\ state_sink'.maxsize = state_sink.maxsize
                  /\ state_sink'.queue =
                        IF Len(state_sink.queue) = state_sink.maxsize
                        THEN Append(Tail(state_sink.queue),
                                    The(result').pushed)
                        ELSE Append(state_sink.queue, The(result').pushed)
          /\ (result' # None /\ "read" \in DOMAIN The(result'))
               => /\ state_sink.queue # <<>>
                  /\ The(result').read = Head(state_sink.queue)
                  /\ state_sink'.queue = Tail(state_sink.queue)]_vars

\* A push met a full queue of two events, and the queue now holds the
\* younger of the two followed by the new event
C29_Witness ==
    /\ state_sink.maxsize = 2
    /\ result # None
    /\ "pushed" \in DOMAIN The(result)
    /\ The(result).overflow
    /\ The(result).pushed.type = "heartbeat"
    /\ state_sink.queue =
          <<[type |-> "status", data |-> [transport |-> "playing"]],
            [type |-> "heartbeat", data |-> EmptyDict]>>


\* ---------------------------------------------------------------------
\* POST /playback/session and the session handler
\* ---------------------------------------------------------------------

\* ScheduledMessageRequest: step is declared with ge=0, le=255
MessageRequestValid(msg) == msg.step >= 0 /\ msg.step <= LOOP_STEPS - 1

\* SessionRequest validated without the limits on step
SessionRequestValidNoStep(req) == req.bpm > 0 /\ req.pattern_length > 0

\* SessionRequest: every message valid, bpm and pattern_length above 0
SessionRequestValid(req) ==
    /\ \A i \in DOMAIN req.messages : MessageRequestValid(req.messages[i])
    /\ req.bpm > 0
    /\ req.pattern_length > 0

\* load_session lines 148-161: the payload built from the request
RequestPayload(req) ==
    [messages |-> [i \in DOMAIN req.messages |->
                      [destination_id |-> req.messages[i].destination_id,
                       cycle |-> req.messages[i].cycle,
                       step |-> req.messages[i].step,
                       params |-> req.messages[i].params]],
     bpm |-> req.bpm,
     pattern_length |-> req.pattern_length]

\* The response to a request body that fails validation: the route
\* function is not entered
Unprocessable(req) == Some([status_code |-> 422, input |-> req])

\* POST /playback/session with no extension registered: a request that
\* fails validation is answered 422; any other is handed to
\* _handle_session
PostSession(req) ==
    IF SessionRequestValid(req)
    THEN HandleSession(RequestPayload(req))
    ELSE /\ result' = Unprocessable(req)
         /\ call' = None
         /\ midi_sent' = <<>>
         /\ events' = <<>>
         /\ dispatched' = None
         /\ UNCHANGED <<state, running, midi_enabled, midi_connected,
                        engine_timing, pending_note_offs, active_notes, command_source,
                        queued, tempo_changed, tasks, connections,
                        destinations_loaded, connection_status,
                        message_scheduler, destination_router, delivered,
                        state_sink, step_suspended>>

\* One message at each of the steps tried, in and out of range
StepsTried == {0, 255, 256, -1}

SessionRequests ==
    {[messages |-> <<[MessageA EXCEPT !.step = step]>>,
      bpm |-> 90, pattern_length |-> 4] : step \in StepsTried}
    \cup {[messages |-> <<MessageB, [MessageA EXCEPT !.step = 300]>>,
           bpm |-> 90, pattern_length |-> 4],
          [messages |-> <<MessageA>>, bpm |-> 0, pattern_length |-> 4]}

NextSession ==
    \/ \E midi_available \in BOOLEAN, config_valid \in BOOLEAN :
          StartEngine(midi_available, config_valid)
    \/ \E req \in SessionRequests : PostSession(req)
    \/ \E payload \in SessionRequests : HandleSession(payload)

SpecSession == Init /\ [][NextSession]_vars

\* A session payload with a message whose step is outside 0..255
StepOutOfRange(payload) ==
    \E i \in DOMAIN payload.messages :
        payload.messages[i].step \notin 0..255

\* C30 (as stated): every session command whose payload holds a message
\* with a step outside 0..255 returns an error and leaves the contents of
\* the scheduler as they were.
C30_AsStated ==
    [][(Handled("session") /\ StepOutOfRange(The(call').payload))
          => /\ Rejected
             /\ message_scheduler' = message_scheduler]_vars

\* C30: a session request posted to the route with a message whose step is
\* outside 0..255 is answered 422 without the handler being called, and
\* the scheduler, the RuntimeState and the rest of the engine stay as they
\* were.
C30_RouteRejects ==
    [][\A req \in SessionRequests :
          (StepOutOfRange(req) /\ PostSession(req))
             => /\ result' = Unprocessable(req)
                /\ call' = None
                /\ message_scheduler' = message_scheduler
                /\ state' = state
                /\ destinations_loaded' = destinations_loaded]_vars

\* A request with a step of 256 was answered 422 while the scheduler held
\* a batch loaded before
C30_Witness ==
    /\ result # None
    /\ "status_code" \in DOMAIN The(result)
    /\ The(result).input.messages[1].step = 256
    /\ destinations_loaded
    /\ MessageCount(message_scheduler) > 0


\* ---------------------------------------------------------------------
\* Anchors: a bpm command between the iterations of the step loop and of
\* the clock loop, in every playback state
\* ---------------------------------------------------------------------
NextAnchors ==
    \/ \E midi_available \in BOOLEAN : Start(midi_available)
    \/ Run
    \/ HandlePlay
    \/ HandlePause
    \/ HandleStop
    \/ HandleBpmAt([bpm |-> 60], step_clock.current_time)
    \/ \E lateness \in SleepLateness : StepLoopAt(lateness, FALSE)
    \/ ClockLoop(0, FALSE)

SpecAnchors == Init /\ [][NextAnchors]_vars

\* The anchors, counters and flags a bpm command may touch
AnchorState ==
    <<step_anchor_time, step_count, suppress_next_drift_reset,
      step_clock.anchor_time, clock_generator>>

\* The step loop's anchor is the time of the command, its counter 0, its
\* flag raised
StepAnchorReset ==
    /\ step_anchor_time' = AnchorSet
    /\ step_clock'.anchor_time = step_clock.current_time
    /\ step_count' = 0
    /\ suppress_next_drift_reset'

\* The clock generator's anchor is set anew, its pulse counter 0, its flag
\* raised
ClockAnchorReset ==
    /\ clock_generator'.clock_anchor_time = AnchorSet
    /\ clock_generator'.pulse_count = 0
    /\ clock_generator'.suppress_next_drift_reset

\* C31 (as stated): a bpm command handled while Playing resets both
\* anchors and raises both flags; handled in another playback state it
\* changes none of them.
C31_AsStated ==
    [][(Handled("bpm") /\ BpmCommandValid(The(call').payload))
          => IF Playing(state)
             THEN StepAnchorReset /\ ClockAnchorReset
             ELSE AnchorState' = AnchorState]_vars

\* C31: a bpm command handled while Playing, once the step loop has set
\* its anchor, resets that anchor to the time of the command with the
\* iteration counter 0 and raises the step loop's flag; the clock
\* generator's anchor, pulse counter and flag are reset with it only when
\* the clock loop has set its anchor. A bpm command handled in another
\* playback state, or while Playing before the step loop's first iteration,
\* changes no anchor, counter or flag.
C31_BpmAnchors ==
    [][(Handled("bpm") /\ BpmCommandValid(The(call').payload))
          => IF Playing(state) /\ step_anchor_time # None
             THEN /\ StepAnchorReset
                  /\ IF clock_generator.clock_anchor_time # None
                     THEN ClockAnchorReset
                     ELSE clock_generator' = clock_generator
             ELSE AnchorState' = AnchorState]_vars

\* A bpm command was handled while Playing after both loops had counted:
\* both counters are back to 0 and both flags are up
C31_Witness ==
    /\ call # None
    /\ The(call).handler = "bpm"
    /\ The(call).prior = "playing"
    /\ step_clock.anchor_time = step_clock.current_time
    /\ step_clock.current_time > 0
    /\ step_count = 0
    /\ suppress_next_drift_reset
    /\ clock_generator.clock_anchor_time # None
    /\ clock_generator.pulse_count = 0
    /\ clock_generator.suppress_next_drift_reset


\* ---------------------------------------------------------------------
\* Stall: the step loop wakes late by more than a step while a loaded
\* session is playing
\* ---------------------------------------------------------------------

\* _handle_drift_reset line 1072: the steps the log and the statistics call
\* skipped
SkippedSteps(drift_us, step_duration) == Abs(drift_us) \div step_duration

\* _handle_drift_reset line 1075: the direction named in the log and in the
\* CLOCK_DRIFT_RESET message
DriftDirection(drift_us) == IF drift_us > 0 THEN "behind" ELSE "ahead"

\* A session with a message at step 0 and another at step 1
StallSession ==
    [messages |-> <<MessageA, [MessageB EXCEPT !.step = 1]>>,
     bpm |-> DEFAULT_BPM, pattern_length |-> 4]

\* The loop wakes on time, or 150 ms late
StallLateness == {0, 150000}

NextStall ==
    \/ \E config_valid \in BOOLEAN : StartEngine(FALSE, config_valid)
    \/ Run
    \/ HandlePlay
    \/ HandlePause
    \/ HandleSession(StallSession)
    \/ \E lateness \in StallLateness : StepLoopAt(lateness, FALSE)

SpecStall == Init /\ [][NextStall]_vars

\* An iteration of the step loop finds itself behind by more than the reset
\* threshold, with no suppress flag raised
Stalled ==
    /\ DriftResets(step_clock'.current_time)
    /\ DriftAt(step_clock'.current_time) > 0
    /\ ~suppress_next_drift_reset

\* The reset is counted once and reported once, as behind
StallReported ==
    /\ drift_stats'.reset_count = drift_stats.reset_count + 1
    /\ events' = <<"CLOCK_DRIFT_RESET">>
    /\ DriftDirection(DriftAt(step_clock'.current_time)) = "behind"

PendingCallFrame ==
    /\ midi_sent' = <<>>
    /\ events' = <<>>
    /\ dispatched' = None
    /\ call' = None
    /\ result' = None
    /\ tempo_changed' = tempo_changed
    /\ UNCHANGED <<running, midi_enabled, midi_connected, engine_timing,
                   pending_note_offs, active_notes, command_source, tasks, connections,
                   destinations_loaded, connection_status, message_scheduler,
                   destination_router, delivered, state_sink, step_suspended>>

\* The advances counted for a change that is not applied
MaxAdvances == 512

\* RuntimeState.set_pending_change as _handle_compile calls it while
\* playing (line 342), with the timing string of the payload as it came;
\* the history records the step of the submission and counts the advances
\* from it
SetPendingChangeCall(timing) ==
    /\ Playing(state)
    /\ state.pending = None
    /\ state' = SetPendingChange(state, PayloadB, timing, {})
    /\ queued' = Some([timing |-> timing,
                       submitted_at |-> state.position.step,
                       advances |-> 0,
                       applied |-> FALSE])
    /\ PendingCallFrame

\* The calls of one processed step on RuntimeState: the pending check and
\* execute_pending, then advance_step. The history keeps the count of an
\* applied change until the next submission.
ProcessStepCall ==
    /\ Playing(state)
    /\ queued # None /\ ~The(queued).applied
          => The(queued).advances < MaxAdvances
    /\ state' = AdvanceStep(StepApply(state))
    /\ queued' =
          IF queued = None \/ The(queued).applied THEN queued
          ELSE IF ShouldApplyPending(state)
               THEN Some([The(queued) EXCEPT !.applied = TRUE])
               ELSE Some([The(queued) EXCEPT !.advances = @ + 1])
    /\ PendingCallFrame

NextSeqWait ==
    \/ HandlePlay
    \/ SetPendingChangeCall("seq")
    \/ ProcessStepCall

SpecSeqWait == Init /\ [][NextSeqWait]_vars

\* The advances from a submission at step s to the first step 0 reached
\* after an advance to a step above 0
SeqWait(s) ==
    IF s = 0 THEN LOOP_STEPS
    ELSE IF s = LOOP_STEPS - 1 THEN LOOP_STEPS + 1
    ELSE LOOP_STEPS - s

\* C33 as stated: a pending apply with timing seq is applied only after at
\* least 256 step advances from its submission, whatever the step of the
\* submission.
C33_AsStated ==
    queued # None /\ The(queued).applied
        => The(queued).advances >= LOOP_STEPS

\* C33: while playback continues, a pending apply with timing seq is
\* applied at the first step 0 the position reaches after an advance to a
\* step above 0 since the submission: after 256 - s advances when
\* submitted at step s in 1..254, after 256 when submitted at step 0 and
\* after 257 when submitted at step 255; it is never applied sooner or
\* left waiting longer.
C33_SeqWait ==
    queued # None =>
        LET q == The(queued)
        IN /\ q.advances <= SeqWait(q.submitted_at)
           /\ q.applied => q.advances = SeqWait(q.submitted_at)
           /\ ~q.applied => state.pending # None

\* A change submitted at step 200 and applied 56 advances later
C33_Witness ==
    /\ queued # None
    /\ The(queued).applied
    /\ The(queued).submitted_at = 200
    /\ The(queued).advances = 56
    /\ state.pending = None
    /\ Effective(state) = SessionFromDict(PayloadB)


\* ---------------------------------------------------------------------
\* Awaits inside a step-loop iteration: a StateSink whose send_position
\* suspends, and the command handlers that run meanwhile
\* ---------------------------------------------------------------------
\* LoopEngine._step_loop lines 898-1037 for a step on the beat that wakes
\* on time: the iteration applies a due pending change, hands the messages
\* of the step to the router, and its await of send_position (line 1037)
\* suspends, so that other coroutines run before the step is advanced
StepLoopSuspends ==
    /\ running
    /\ "step" \in tasks.alive
    /\ step_suspended = None
    /\ Playing(state)
    /\ state.position.step % 4 = 0
    /\ LET count == IF step_anchor_time = None THEN 0 ELSE step_count
           applies == ShouldApplyPending(state)
           applied == GetEffective(StepApply(state))
           bpm_changed == applies /\ Bpm(applied) # Bpm(state)
           base == IF bpm_changed THEN 0 ELSE count
       IN /\ base < MaxStepCount
          /\ state' = applied
          /\ queued' = IF applies THEN None ELSE queued
          /\ step_anchor_time' = AnchorSet
          /\ step_count' = base
          /\ suppress_next_drift_reset' =
                (suppress_next_drift_reset \/ bpm_changed)
          /\ tempo_changed' = (tempo_changed \/ bpm_changed)
          /\ clock_generator' =
                IF bpm_changed
                THEN ClockSuppressNextDriftReset(clock_generator)
                ELSE clock_generator
          /\ dispatched' = Some([step |-> state.position.step,
                                 session |-> Effective(applied)])
          /\ events' = (IF applies THEN <<"tracks">> ELSE <<>>)
                       \o <<"position">>
    /\ delivered' = IF StepDispatches(0)
                    THEN SendMessages(destination_router,
                             GetMessagesAtStep(message_scheduler,
                                               state.position.step))
                    ELSE delivered
    /\ step_suspended' = Some("send_position")
    /\ midi_sent' = <<>>
    /\ result' = None
    /\ call' = None
    /\ UNCHANGED <<running, midi_enabled, midi_connected, command_source,
                   drift_stats, step_clock, pending_note_offs, active_notes, tasks,
                   connections, destinations_loaded, connection_status,
                   message_scheduler, destination_router, state_sink>>

\* LoopEngine._step_loop lines 1043-1058 when the suspended send_position
\* returns: tracks are sent on the bar, the iteration counter and the
\* position advance without a second look at the playback state, and
\* line 1056 adds to self._step_anchor_time, which raises TypeError out
\* of the loop when a handler has set the anchor to None meanwhile
StepLoopResumes ==
    /\ "step" \in tasks.alive
    /\ step_suspended # None
    /\ step_suspended' = None
    /\ state' = AdvanceStep(state)
    /\ step_count' = step_count + 1
    /\ tasks' = IF step_anchor_time = None THEN TaskRaised("step") ELSE tasks
    /\ queued' = IF queued # None /\ state'.position.step > 0
                 THEN Some([The(queued) EXCEPT !.advanced = TRUE])
                 ELSE queued
    /\ events' = IF state.position.step % 16 = 0 THEN <<"tracks">> ELSE <<>>
    /\ midi_sent' = <<>>
    /\ dispatched' = None
    /\ result' = None
    /\ call' = None
    /\ tempo_changed' = tempo_changed
    /\ UNCHANGED <<running, midi_enabled, midi_connected, command_source,
                   step_anchor_time, suppress_next_drift_reset, drift_stats,
                   clock_generator, step_clock, pending_note_offs, active_notes,
                   connections, destinations_loaded, connection_status,
                   message_scheduler, destination_router, delivered,
                   state_sink>>

NextAwait ==
    \/ \E config_valid \in BOOLEAN : StartEngine(FALSE, config_valid)
    \/ Run
    \/ HandleSession(StallSession)
    \/ HandlePlay
    \/ HandleStop
    \/ HandlePause
    \/ HandlePanic
    \/ StepLoop(0, <<>>)
    \/ StepLoopSuspends
    \/ StepLoopResumes

SpecAwait == Init /\ [][NextAwait]_vars

\* An iteration suspended in send_position goes on after a stop, pause or
\* panic took effect
ResumesNotPlaying ==
    /\ step_suspended # None
    /\ step_suspended' = None
    /\ ~Playing(state)

\* C34: whatever command handlers run while the step loop is suspended,
\* once a stop, pause or panic has taken effect the iteration in progress
\* neither dispatches messages nor advances the position; whenever the
\* playback state is Stopped the position is step 0, and play from
\* Stopped starts at step 0.
C34_AsStated ==
    /\ [](state.playback_state = STOPPED => state.position.step = 0)
    /\ [][ResumesNotPlaying
             => /\ state'.position = state.position
                /\ delivered' = delivered]_vars
    /\ [][Handled("play") /\ state.playback_state = STOPPED
             => state'.position.step = 0]_vars


\* ---------------------------------------------------------------------
\* Overtaking: a compile applied at once while an older one is pending
\* ---------------------------------------------------------------------
\* Compile A for the next bar, and compile B without apply or for now
OvertakeInputs ==
    {WithApply(PayloadA, "bar", {}),
     PayloadB,
     WithApply(PayloadB, "now", {})}

NextOvertake ==
    \/ Run
    \/ \E payload \in OvertakeInputs : HandleCompile(payload)
    \/ HandlePlay
    \/ HandleStop
    \/ HandlePause
    \/ HandlePanic
    \/ state.position.step < MaxStepCount /\ StepLoop(0, <<>>)

SpecOvertake == Init /\ [][NextOvertake]_vars

\* A compile was applied at once while the queued one was pending
Overtaken == queued # None /\ The(queued).overtaken

\* C35: once a later compile B was applied immediately while compile A was
\* the pending apply, A is never applied over B: the steps processed
\* afterwards leave the effective session B's.
C35_AsStated ==
    [][Overtaken /\ dispatched' # None
          => Effective(state') = Effective(state)]_vars


\* ---------------------------------------------------------------------
\* Transport commands with the MIDI output enabled and connected from
\* start() on
\* ---------------------------------------------------------------------
NextMidiOn ==
    \/ Start(TRUE)
    \/ Run
    \/ MidiOut /\ HandlePlay
    \/ MidiOut /\ HandlePause
    \/ MidiOut /\ HandleStop
    \/ MidiOut /\ HandlePanic
    \/ MidiOut /\ state.position.step < MaxStepCount /\ StepLoop(0, <<>>)

SpecMidiOn == Init /\ [][NextMidiOn]_vars

\* The last transport message among the MIDI messages of an action
LastTransport(messages) ==
    LET at == {i \in DOMAIN messages : messages[i] \in TransportMessages}
    IN IF at = {} THEN None
       ELSE Some(messages[CHOOSE i \in at : \A j \in at : j <= i])

\* C36: with MIDI enabled and connected throughout, the most recent MIDI
\* transport message is Start or Continue if and only if the playback
\* state is Playing (otherwise it is Stop, or none was sent yet). Stated on
\* the steps that keep it true: an action that makes the state Playing
\* sends Start or Continue last, an action that ends Playing sends Stop
\* last, and any other action sends no transport message that disagrees
\* with the state.
C36_AsStated ==
    [][MidiOut /\ MidiOut'
          => LET last == LastTransport(midi_sent')
             IN /\ Playing(state') /\ ~Playing(state)
                     => last \in {Some("start"), Some("continue")}
                /\ ~Playing(state') /\ Playing(state)
                     => last = Some("stop")
                /\ Playing(state') = Playing(state) /\ last # None
                     => (last \in {Some("start"), Some("continue")})
                            = Playing(state')]_vars


\* ---------------------------------------------------------------------
\* The suppress flag of a BPM change across stop, pause and panic
\* ---------------------------------------------------------------------
NextLatch ==
    \/ Run
    \/ HandlePlay
    \/ HandleStop
    \/ HandlePause
    \/ HandlePanic
    \/ HandleBpmAt([bpm |-> 60], step_clock.current_time)
    \/ \E lateness \in SleepLateness : StepLoopAt(lateness, FALSE)

SpecLatch == Init /\ [][NextLatch]_vars

\* A stop, pause or panic ends Playing
EndsPlaying ==
    /\ Handled("stop") \/ Handled("pause") \/ Handled("panic")
    /\ Playing(state)
    /\ ~Playing(state')

\* An iteration of the step loop begins a playback run: it sets the anchor
BeginsRun == StepRuns /\ step_anchor_time = None

\* C37: the suppress flag latched by a BPM change does not survive a stop,
\* pause or panic: none is latched when playback ends nor when the step
\* loop begins the next run, so that a drift above the reset threshold in
\* a later run is counted in reset_count and reported.
C37_AsStated ==
    /\ [][EndsPlaying => ~suppress_next_drift_reset']_vars
    /\ [][BeginsRun => ~suppress_next_drift_reset]_vars


\* ---------------------------------------------------------------------
\* Pending wait: the timing strings _handle_compile queues, and the steps
\* processed until the change is applied
\* ---------------------------------------------------------------------
\* _handle_compile lines 316-318 and 339-346: every timing string but now
\* is queued while playing; none is checked against ApplyTiming
QueuedTimings == {"beat", "bar", "seq", "cycle"}

NextPendingWait ==
    \/ HandlePlay
    \/ \E timing \in QueuedTimings : SetPendingChangeCall(timing)
    \/ ProcessStepCall

SpecPendingWait == Init /\ [][NextPendingWait]_vars

\* The processed steps within which a queued change is to be executed
TimingBound(timing) ==
    CASE timing = "beat" -> 4
      [] timing = "bar" -> 16
      [] OTHER -> 512

\* C38: while playback continues Playing, every pending apply the compile
\* handler queued is executed within a bounded number of processed steps:
\* at most 4 for beat, 16 for bar and 512 for seq and for any other timing
\* value that the handler accepts and queues.
C38_AsStated ==
    queued # None /\ ~The(queued).applied
        => The(queued).advances < TimingBound(The(queued).timing)


\* ---------------------------------------------------------------------
\* The clock loop and a MIDI port opened or closed by the midi_port
\* command, before or after run()
\* ---------------------------------------------------------------------
NextClockPort ==
    \/ \E midi_available \in BOOLEAN : Start(midi_available)
    \/ commands_connected /\ Run
    \/ \E port_opens \in BOOLEAN : HandleMidiPort(port_opens)
    \/ HandlePlay
    \/ HandlePause
    \/ ClockLoop(0, FALSE)

SpecClockPort == Init /\ [][NextClockPort]_vars

\* C39: whenever the engine is running, playback is Playing and the MIDI
\* output is connected, the clock loop is there to emit the MIDI clock,
\* also when the port was opened by a midi_port command after run()
\* started; each pulse it sends is one of 6 per step.
C39_AsStated ==
    /\ [](running /\ tasks.run = "active" /\ Playing(state) /\ midi_connected
            => "clock" \in tasks.alive)
    /\ [][running /\ Playing(state) /\ "clock" \in Sent(midi_sent')
             => clock_generator'.pulse_duration
                    = CalculatePulseDuration(state.step_duration)]_vars


\* ---------------------------------------------------------------------
\* Note-ons and their note-offs (SpecNotes)
\* ---------------------------------------------------------------------

\* The engine keeps running: transport commands, port changes, steps that
\* play a note, and the note-off loop with any part of the queue due
NextNotes ==
    \/ Start(TRUE)
    \/ Run
    \/ HandlePlay
    \/ HandlePause
    \/ HandleStop
    \/ HandlePanic
    \/ \E port_opens \in BOOLEAN : HandleMidiPort(port_opens)
    \/ \E midi_notes \in StepNotes :
          state.position.step < MaxStepCount /\ StepLoop(0, midi_notes)
    \/ \E due \in SUBSET (1..MaxPendingNotes) : NoteOffLoop(due)

\* _note_off_loop polls every millisecond and the off_time of an entry is
\* finite: an iteration in which every queued entry is due keeps coming
NoteOffsDue == NoteOffLoop(1..Len(pending_note_offs))

SpecNotes ==
    /\ Init
    /\ [][NextNotes]_vars
    /\ WF_vars(NoteOffsDue)

\* The notes a step can play
PlayedNotes == UNION {{midi_notes[i] : i \in 1..Len(midi_notes)} :
                      midi_notes \in StepNotes}

\* C40: every note-on sent through the note scheduler is followed on the
\* MIDI output by its note-off or by an all-notes-off while the engine
\* keeps running, across pause, stop, panic and a port that is closed and
\* opened again: a note sounds only on an open port with its note-off
\* queued, and every sounding note is silenced
C40_NoteOff ==
    /\ [](active_notes # {} => midi_connected)
    /\ [](active_notes \subseteq Sent(pending_note_offs))
    /\ \A n \in PlayedNotes : (n \in active_notes) ~> (n \notin active_notes)

\* The note-off loop has sent the note-off of the note that was sounding
C40_Witness ==
    /\ running
    /\ Sent(midi_sent) = {"note_off"}
    /\ active_notes = {}
    /\ pending_note_offs = <<>>

====
